---- MODULE Spec2Model ----
(***************************************************************************)
(* A state-machine model of the link-harvest loops and the detail sessions *)
(* of the Google Maps scrapers:                                            *)
(*   enhanced_google_maps_scraper.py  EnhancedGoogleMapsBusinessScraper    *)
(*   optimized_scraper.py             OptimizedGoogleMapsScraper           *)
(* The browser (the view) is the environment: what a query yields, and     *)
(* whether a driver call raises, is chosen nondeterministically.           *)
(***************************************************************************)
EXTENDS Integers, Sequences, FiniteSets, TLC

VARIABLES
    variant,        \* which scraper class runs: "enhanced" or "optimized"
    max_results,    \* self.max_results
    pc,             \* position in the harvest code
    all_links,      \* the local set all_links of the harvest loop
    scroll,         \* scroll_attempts (enhanced) / scroll_count (optimized)
    nnc,            \* no_new_content_count (enhanced) / patience (optimized)
    new_count,      \* new_links_count (enhanced) / new_count (optimized)
    path,           \* which query feeds the running for-loop
    streak,         \* history: recovery strategies invoked in the current no-progress streak
    one_each,       \* history: every completed iteration so far found exactly one new link
    iters,          \* history: how often the body of the while loop was entered
    redisc,         \* history: this iteration met an href that was already stored
    seen_links,     \* self.seen_links (optimized)
    found,          \* all_links of search_and_extract_links (optimized)
    url_idx,        \* index of the search URL being tried (optimized)
    exit_by,        \* history: how the harvest loop was left
    result,         \* the list returned by get_business_links / search_and_extract_links
    tried,          \* history: the scroll methods the last _enhanced_scroll call attempted
    phase,          \* position in run_extraction / run_scraping
    links,          \* business_links
    idx,            \* number of links the detail loop has processed
    results,        \* the local list results
    successful,     \* the local counter successful (run_extraction)
    failed,         \* the local counter failed (run_extraction)
    contacts_found, \* self.contacts_found, when the attribute exists
    extracted_count,\* self.extracted_count
    pages,          \* history: what the detail page of each processed link showed
    driver_quit,    \* cleanup() / close() has called driver.quit()
    ret,            \* what run_extraction / run_scraping / scrape_google_maps returned
    raised,         \* the exception that left the session towards the caller, or "none"
    phone,          \* the argument of _format_phone_number, a string as a sequence of characters
    formatted,      \* what _format_phone_number returned for it
    extracted,      \* what the phone extractor returned
    field,          \* which field extractor runs
    seen,           \* history: what each selector consulted so far produced
    field_value,    \* what the field extractor returned
    gpc,            \* position in search / scroll_for_more_results (basic scraper)
    scroll_container,       \* a scroll container is held (FALSE: None)
    last_height,            \* the local last_height
    scroll_attempts,        \* the local scroll_attempts
    no_new_results_count,   \* the local no_new_results_count
    n_results,              \* len(self.results)
    initial_source_length,  \* the local initial_source_length
    final_source_length,    \* the local final_source_length
    loops,          \* history: how often the body of the while loop was entered
    captured,       \* history: what happened inside the capture_evidence call of the last step
    escaped,        \* the exception that left scroll_for_more_results, or "none"
    delay,          \* the local delay of the harvest loop, in milliseconds
    slept,          \* history: new_links_count / new_count of the pass that chose delay, or -1
    lpc,            \* position in process_listings / extract_business_info (basic scraper)
    records,        \* self.results of the basic scraper, each record as <<name, address>>
    remaining,      \* how many elements of listings the for loop has still to visit
    seen_ids,       \* the local seen of process_listings
    cur_name,       \* the local name of extract_business_info
    cur_address,    \* the local address of extract_business_info
    selector_no,    \* which selector of the running selector loop is next
    data,           \* the local business_data of process_listings
    min_results,    \* self.min_results of the basic scraper
    variation,      \* which element of search_variations the for loop visits next
    issued          \* history: the variations typed into the search box, in order

\* the variables of the harvest code
hvars == <<pc, all_links, scroll, nnc, new_count, path,
           streak, one_each, iters, redisc, seen_links, found, url_idx, exit_by, result,
           tried>>
\* the variables of the session code
svars == <<phase, links, idx, results, successful, failed, contacts_found,
           extracted_count, pages, driver_quit, ret, raised>>
\* the variables of a call of _format_phone_number or of a phone extractor
pvars == <<phone, formatted, extracted>>
\* the variables of a field extractor
fvars == <<field, seen, field_value>>
\* the variables of search and scroll_for_more_results
gvars == <<gpc, scroll_container, last_height, scroll_attempts, no_new_results_count,
           n_results, initial_source_length, final_source_length, loops, captured, escaped>>
\* the variables of the delay after a harvest pass
dvars == <<delay, slept>>
\* the variables of the models below the harvest, session, phone, field and scroll models
\* the variables of process_listings and extract_business_info
lvars == <<lpc, records, remaining, seen_ids, cur_name, cur_address, selector_no, data>>
\* the variables of the alternative queries of search
avars == <<min_results, variation, issued>>
xvars == <<dvars, lvars, avars>>
\* the variables of the harvest, session, phone, field and scroll models
base == <<variant, max_results, hvars, svars, pvars, fvars, gvars>>
vars == <<variant, max_results, hvars, svars, pvars, fvars, gvars, xvars>>

----------------------------------------------------------------------------
(* Bounds of the model *)

\* number of distinct place URLs the view can show
NumHrefs == 3
\* largest small target; targets above NumHrefs can never be reached
MaxTarget == 4
\* the leading characters of a phone argument that are drawn freely
HeadLen == 4
\* longest phone argument
MaxPhoneLen == 14
\* the largest scroll height the view reports
MaxHeight == 1
\* the largest length of a page source
MaxPageLen == 1
\* the most listings one pass of the scroll loop can add
MaxNew == 1
MaxListings == 2
MaxQTarget == 3

----------------------------------------------------------------------------
(* The view *)

\* A place URL.  Odd ids are URLs without a query string, the even id h is
\* the URL h-1 followed by "?...": both address the same item.
Hrefs == [kind : {"place"}, id : 1..NumHrefs]
\* get_attribute('href') gave None or "", or raised
NoHref == [kind |-> "none", id |-> 0]
\* an href that does not contain "/maps/place/"
OtherHref == [kind |-> "other", id |-> 0]
\* what one element of a query result can carry
Raw == Hrefs \cup {NoHref, OtherHref}

HasQuery(h) == h.kind = "place" /\ h.id % 2 = 0
\* href.split('?')[0]
StripQuery(h) == IF HasQuery(h) THEN [h EXCEPT !.id = h.id - 1] ELSE h
\* href && href.includes('/maps/place/')   /   href and '/maps/place/' in href
IsPlace(h) == h.kind = "place"

Min(a, b) == IF a < b THEN a ELSE b
Max(a, b) == IF a > b THEN a ELSE b

\* all orderings of a finite set: list(a_set) yields one of them
Orderings(S) == {s \in [1..Cardinality(S) -> S] : \A i, j \in 1..Cardinality(S) : s[i] = s[j] => i = j}
\* lst[:n] for n >= 0
Prefix(lst, n) == SubSeq(lst, 1, Min(n, Len(lst)))

----------------------------------------------------------------------------
(* EnhancedGoogleMapsBusinessScraper.get_business_links *)

\* max_scrolls = min(50, max(20, self.max_results))
EMaxScrolls == Min(50, Max(20, max_results))
EMaxPatience == 8
AltScrollAt == 3
RefreshAt == 6
ZoomOutAt == 10

\* while scroll_attempts < max_scrolls and len(all_links) < self.max_results
ELoopTest ==
    /\ pc = "e_loop"
    /\ IF scroll < EMaxScrolls /\ Cardinality(all_links) < max_results
       THEN /\ pc' = "e_query"
            /\ new_count' = 0
            /\ iters' = iters + 1
            /\ redisc' = FALSE
            /\ UNCHANGED exit_by
       ELSE /\ pc' = "e_ret"
            /\ exit_by' = "while"
            /\ UNCHANGED <<new_count, iters, redisc>>
    /\ UNCHANGED <<xvars, fvars, gvars, pvars, svars, tried, variant, max_results, all_links, scroll, nnc, path, streak,
                   one_each, seen_links, found, url_idx, result>>

\* the scripted query returned a list
EQueryScript ==
    /\ pc = "e_query"
    /\ pc' = "e_for"
    /\ path' = "js"
    /\ UNCHANGED <<xvars, fvars, gvars, pvars, svars, tried, variant, max_results, iters, redisc, all_links, scroll, nnc, new_count, streak,
                   one_each, seen_links, found, url_idx, exit_by, result>>

\* the scripted query raised; the element query of the except branch returned
EQueryFallback ==
    /\ pc = "e_query"
    /\ pc' = "e_for"
    /\ path' = "fallback"
    /\ UNCHANGED <<xvars, fvars, gvars, pvars, svars, tried, variant, max_results, iters, redisc, all_links, scroll, nnc, new_count, streak,
                   one_each, seen_links, found, url_idx, exit_by, result>>

\* the scripted query raised and the element query raised too
EQueryFailed ==
    /\ pc = "e_query"
    /\ pc' = "e_check"
    /\ path' = "none"
    /\ UNCHANGED <<xvars, fvars, gvars, pvars, svars, tried, variant, max_results, iters, redisc, all_links, scroll, nnc, new_count, streak,
                   one_each, seen_links, found, url_idx, exit_by, result>>

\* the href the Python loop sees for view element e on the given path
EHrefOf(e, p) == IF p = "js" THEN StripQuery(e) ELSE e

\* mutant: the membership test is forgotten
EAcceptsAny(h) == IsPlace(h)

\* if href and ['/maps/place/' in href and] href not in all_links
EAccepts(h) == IsPlace(h) /\ h \notin all_links

\* mutant: the for-loop does not break when the target is reached
EForStepNoBreak(e) ==
    /\ pc = "e_for"
    /\ LET h == EHrefOf(e, path) IN
       /\ redisc' = (redisc \/ h \in all_links)
       /\ IF EAccepts(h)
          THEN all_links' = all_links \cup {h} /\ new_count' = new_count + 1
          ELSE UNCHANGED <<all_links, new_count>>
    /\ UNCHANGED <<xvars, fvars, gvars, pvars, svars, tried, variant, max_results, iters, scroll, nnc, streak, one_each,
                   seen_links, found, url_idx, exit_by, result, pc, path>>

\* one pass of "for href in links" / "for el in elements[:50]"
EForStep(e) ==
    /\ pc = "e_for"
    /\ LET h == EHrefOf(e, path) IN
       /\ redisc' = (redisc \/ h \in all_links)
       /\ IF EAccepts(h)
          THEN /\ all_links' = all_links \cup {h}
               /\ new_count' = new_count + 1
               \* if len(all_links) >= self.max_results: break
               /\ IF Cardinality(all_links') >= max_results
                  THEN pc' = "e_check" /\ path' = "none"
                  ELSE UNCHANGED <<pc, path>>
          ELSE UNCHANGED <<all_links, new_count, pc, path>>
    /\ UNCHANGED <<xvars, fvars, gvars, pvars, svars, tried, variant, max_results, iters, scroll, nnc, streak, one_each,
                   seen_links, found, url_idx, exit_by, result>>

\* the list is exhausted
EForEnd ==
    /\ pc = "e_for"
    /\ pc' = "e_check"
    /\ path' = "none"
    /\ UNCHANGED <<xvars, fvars, gvars, pvars, svars, tried, variant, max_results, iters, redisc, all_links, scroll, nnc, new_count, streak,
                   one_each, seen_links, found, url_idx, exit_by, result>>

\* mutant: the first two thresholds are exchanged
ERecoverySwapped(n) ==
    IF n = RefreshAt THEN <<"alternative_scroll">>
    ELSE IF n = AltScrollAt THEN <<"page_refresh">>
    ELSE IF n = ZoomOutAt THEN <<"zoom_out">>
    ELSE <<>>

\* the recovery strategy called when the no-progress counter has just become n
ERecovery(n) ==
    IF n = AltScrollAt THEN <<"alternative_scroll">>
    ELSE IF n = RefreshAt THEN <<"page_refresh">>
    ELSE IF n = ZoomOutAt THEN <<"zoom_out">>
    ELSE <<>>

\* lines 462-489: target check and patience logic
ECheck ==
    /\ pc = "e_check"
    /\ one_each' = (one_each /\ new_count = 1)
    /\ redisc' = FALSE
    /\ IF Cardinality(all_links) >= max_results
       THEN /\ pc' = "e_ret"
            /\ exit_by' = "target"
            /\ UNCHANGED <<nnc, streak>>
       ELSE IF new_count = 0
            THEN /\ nnc' = nnc + 1
                 /\ streak' = streak \o ERecovery(nnc + 1)
                 /\ IF nnc + 1 >= EMaxPatience
                    THEN pc' = "e_ret" /\ exit_by' = "patience"
                    ELSE pc' = "e_scroll" /\ UNCHANGED exit_by
            ELSE /\ nnc' = 0
                 /\ streak' = <<>>
                 /\ pc' = "e_scroll"
                 /\ UNCHANGED exit_by
    /\ UNCHANGED <<xvars, fvars, gvars, pvars, svars, tried, variant, max_results, iters, all_links, scroll, new_count, path,
                   seen_links, found, url_idx, result>>

\* _enhanced_scroll (lines 529-615): what it attempts and whether it returns,
\* given whether the container scroll script (line 567) and the scripts of
\* the except branch (lines 574, 577) run without raising.  When the container
\* script raises, the except branch either raises at one of its own scripts
\* or reaches "if not scrolled" (line 589), a name that is never bound: the
\* NameError leaves the method, since the second "except Exception" (line
\* 614) does not guard the first.  The PAGE_DOWN keys (lines 605-612) come
\* after that line.
EnhancedScroll(script_ok, window_ok, body_ok) ==
    IF script_ok THEN [tried |-> <<"container">>, returns |-> TRUE]
    ELSE IF ~window_ok THEN [tried |-> <<"container", "window">>, returns |-> FALSE]
    ELSE IF ~body_ok THEN [tried |-> <<"container", "window", "body">>, returns |-> FALSE]
    ELSE [tried |-> <<"container", "window", "body", "divs">>, returns |-> FALSE]

\* lines 492-512: _enhanced_scroll returned normally
EScroll ==
    /\ pc = "e_scroll"
    /\ \E script_ok, window_ok, body_ok \in BOOLEAN :
          LET call == EnhancedScroll(script_ok, window_ok, body_ok) IN
          /\ call.returns
          /\ tried' = call.tried
    /\ IF Cardinality(all_links) >= max_results
       THEN pc' = "e_ret" /\ exit_by' = "target" /\ UNCHANGED scroll
       ELSE pc' = "e_loop" /\ scroll' = scroll + 1 /\ UNCHANGED exit_by
    /\ UNCHANGED <<xvars, fvars, gvars, pvars, svars, variant, max_results, iters, redisc, all_links, nnc, new_count, path, streak,
                   one_each, seen_links, found, url_idx, result>>

\* _enhanced_scroll raised: the outer "except Exception" of get_business_links
\* (lines 525-527) returns []
EScrollRaises ==
    /\ pc = "e_scroll"
    /\ \E script_ok, window_ok, body_ok \in BOOLEAN :
          LET call == EnhancedScroll(script_ok, window_ok, body_ok) IN
          /\ ~call.returns
          /\ tried' = call.tried
    /\ pc' = "done"
    /\ exit_by' = "abort"
    /\ result' = <<>>
    /\ UNCHANGED <<xvars, fvars, gvars, pvars, svars, variant, max_results, iters, redisc, all_links, scroll, nnc, new_count, path, streak,
                   one_each, seen_links, found, url_idx>>

\* business_links = list(all_links)[:self.max_results]; return business_links
EReturn ==
    /\ pc = "e_ret"
    /\ \E o \in Orderings(all_links) : result' = Prefix(o, max_results)
    /\ pc' = "done"
    /\ UNCHANGED <<xvars, fvars, gvars, pvars, svars, tried, variant, max_results, iters, redisc, all_links, scroll, nnc, new_count, path, streak,
                   one_each, seen_links, found, url_idx, exit_by>>

ENext ==
    \/ ELoopTest
    \/ EQueryScript
    \/ EQueryFallback
    \/ EQueryFailed
    \/ \E e \in Raw : EForStep(e)
    \/ EForEnd
    \/ ECheck
    \/ EScroll
    \/ EScrollRaises
    \/ EReturn

----------------------------------------------------------------------------
(* OptimizedGoogleMapsScraper._extract_links_optimized *)

OMaxScrolls == 50
OMaxPatience == 15
\* selectors[1:], the element queries tried when the first one found nothing new
NumFallbackSelectors == 4
\* search_queries of search_and_extract_links
NumSearchUrls == 3

SelectorPaths == <<"sel1", "sel2", "sel3", "sel4">>
SelectorIndex(p) == CHOOSE k \in 1..NumFallbackSelectors : SelectorPaths[k] = p

\* while scroll_count < max_scrolls and len(all_links) < self.max_results
OLoopTest ==
    /\ pc = "o_loop"
    /\ IF scroll < OMaxScrolls /\ Cardinality(all_links) < max_results
       THEN /\ pc' = "o_query"
            /\ new_count' = 0
            /\ iters' = iters + 1
            /\ redisc' = FALSE
            /\ UNCHANGED exit_by
       ELSE /\ pc' = "o_ret"
            /\ exit_by' = "while"
            /\ UNCHANGED <<new_count, iters, redisc>>
    /\ UNCHANGED <<xvars, fvars, gvars, pvars, svars, tried, variant, max_results, all_links, scroll, nnc, path, streak,
                   one_each, seen_links, found, url_idx, result>>

\* line 171: find_elements returned
OQuery ==
    /\ pc = "o_query"
    /\ pc' = "o_for"
    /\ path' = "primary"
    /\ UNCHANGED <<xvars, fvars, gvars, pvars, svars, tried, variant, max_results, iters, redisc, all_links, scroll, nnc, new_count, streak,
                   one_each, seen_links, found, url_idx, exit_by, result>>

\* line 171: find_elements raised, caught at line 199
OQueryRaises ==
    /\ pc = "o_query"
    /\ pc' = "o_check"
    /\ path' = "none"
    /\ UNCHANGED <<xvars, fvars, gvars, pvars, svars, tried, variant, max_results, iters, redisc, all_links, scroll, nnc, new_count, streak,
                   one_each, seen_links, found, url_idx, exit_by, result>>

\* seen_links is not consulted
OAcceptsIgnoringSeen(h) == IsPlace(h) /\ h \notin all_links

\* href and '/maps/place/' in href and href not in all_links and href not in self.seen_links
OAccepts(h) == IsPlace(h) /\ h \notin all_links /\ h \notin seen_links

\* one pass of "for element in elements[-50:]" / "for element in elements[-20:]"
OForStep(e) ==
    /\ pc = "o_for"
    /\ redisc' = (redisc \/ e \in all_links \/ e \in seen_links)
    /\ IF OAccepts(e)
       THEN /\ all_links' = all_links \cup {e}
            /\ seen_links' = seen_links \cup {e}
            /\ new_count' = new_count + 1
            \* if len(all_links) >= self.max_results: return all_links
            /\ IF Cardinality(all_links') >= max_results
               THEN pc' = "o_ret" /\ exit_by' = "target" /\ path' = "none"
               ELSE UNCHANGED <<pc, exit_by, path>>
       ELSE UNCHANGED <<all_links, seen_links, new_count, pc, exit_by, path>>
    /\ UNCHANGED <<xvars, fvars, gvars, pvars, svars, tried, variant, max_results, iters, scroll, nnc, streak, one_each,
                   found, url_idx, result>>

\* does another element query follow the list that has just been exhausted
OMoreSelectors ==
    \/ path = "primary" /\ new_count = 0
    \/ path \in {SelectorPaths[k] : k \in 1..(NumFallbackSelectors - 1)}

ONextPath == IF path = "primary" THEN SelectorPaths[1] ELSE SelectorPaths[SelectorIndex(path) + 1]

\* the list is exhausted; the next selector's find_elements (if any) returned
OForEnd ==
    /\ pc = "o_for"
    /\ IF OMoreSelectors
       THEN path' = ONextPath /\ UNCHANGED pc
       ELSE pc' = "o_check" /\ path' = "none"
    /\ UNCHANGED <<xvars, fvars, gvars, pvars, svars, tried, variant, max_results, iters, redisc, all_links, scroll, nnc, new_count, streak,
                   one_each, seen_links, found, url_idx, exit_by, result>>

\* the list is exhausted; the next selector's find_elements raised (line 199)
OForEndRaises ==
    /\ pc = "o_for"
    /\ OMoreSelectors
    /\ pc' = "o_check"
    /\ path' = "none"
    /\ UNCHANGED <<xvars, fvars, gvars, pvars, svars, tried, variant, max_results, iters, redisc, all_links, scroll, nnc, new_count, streak,
                   one_each, seen_links, found, url_idx, exit_by, result>>

\* lines 203-209
OCheck ==
    /\ pc = "o_check"
    /\ one_each' = (one_each /\ new_count = 1)
    /\ redisc' = FALSE
    /\ IF new_count = 0
       THEN /\ nnc' = nnc + 1
            /\ IF nnc + 1 >= OMaxPatience
               THEN pc' = "o_ret" /\ exit_by' = "patience"
               ELSE pc' = "o_scroll" /\ UNCHANGED exit_by
       ELSE /\ nnc' = 0
            /\ pc' = "o_scroll"
            /\ UNCHANGED exit_by
    /\ UNCHANGED <<xvars, fvars, gvars, pvars, svars, tried, variant, max_results, iters, all_links, scroll, new_count, path, streak,
                   seen_links, found, url_idx, result>>

\* mutant: scroll_count += 1 is forgotten
OScrollNoIncrement ==
    /\ pc = "o_scroll"
    /\ pc' = "o_loop"
    /\ UNCHANGED <<xvars, fvars, gvars, pvars, svars, tried, variant, max_results, iters, redisc, all_links, scroll, nnc,
                   new_count, path, streak, one_each, seen_links, found, url_idx,
                   exit_by, result>>

\* lines 212-221: _scroll_optimized (guarded throughout), the delay, the counter
OScroll ==
    /\ pc = "o_scroll"
    /\ scroll' = scroll + 1
    /\ IF Cardinality(all_links) >= max_results
       THEN pc' = "o_ret" /\ exit_by' = "target"
       ELSE pc' = "o_loop" /\ UNCHANGED exit_by
    /\ UNCHANGED <<xvars, fvars, gvars, pvars, svars, tried, variant, max_results, iters, redisc, all_links, nnc, new_count, path, streak,
                   one_each, seen_links, found, url_idx, result>>

(* OptimizedGoogleMapsScraper.search_and_extract_links *)

\* lines 98-100: the next URL, unless the target is reached or no URL is left
SLoopTest ==
    /\ pc = "s_loop"
    /\ IF url_idx < NumSearchUrls /\ Cardinality(found) < max_results
       THEN pc' = "s_get"
       ELSE pc' = "s_ret"
    /\ UNCHANGED <<xvars, fvars, gvars, pvars, svars, tried, variant, max_results, iters, redisc, all_links, scroll, nnc, new_count, path, streak,
                   one_each, seen_links, found, url_idx, exit_by, result>>

\* lines 103-108: the page loaded; _extract_links_optimized starts
SGet ==
    /\ pc = "s_get"
    /\ pc' = "o_loop"
    /\ all_links' = {}
    /\ scroll' = 0
    /\ nnc' = 0
    /\ new_count' = 0
    /\ one_each' = TRUE
    /\ iters' = 0
    /\ redisc' = FALSE
    /\ exit_by' = "running"
    /\ UNCHANGED <<xvars, fvars, gvars, pvars, svars, tried, variant, max_results, path, streak, seen_links, found,
                   url_idx, result>>

\* lines 103, 114-116: driver.get raised; continue with the next URL
SGetRaises ==
    /\ pc = "s_get"
    /\ pc' = "s_loop"
    /\ url_idx' = url_idx + 1
    /\ UNCHANGED <<xvars, fvars, gvars, pvars, svars, tried, variant, max_results, iters, redisc, all_links, scroll, nnc, new_count, path, streak,
                   one_each, seen_links, found, exit_by, result>>

\* _extract_links_optimized returns all_links; lines 109-112
OReturn ==
    /\ pc = "o_ret"
    /\ found' = found \cup all_links
    /\ IF Cardinality(found') >= max_results
       THEN pc' = "s_ret" /\ UNCHANGED url_idx
       ELSE pc' = "s_loop" /\ url_idx' = url_idx + 1
    /\ UNCHANGED <<xvars, fvars, gvars, pvars, svars, tried, variant, max_results, iters, redisc, all_links, scroll, nnc, new_count, path, streak,
                   one_each, seen_links, exit_by, result>>

\* return list(all_links)[:self.max_results]
SReturn ==
    /\ pc = "s_ret"
    /\ \E o \in Orderings(found) : result' = Prefix(o, max_results)
    /\ pc' = "done"
    /\ UNCHANGED <<xvars, fvars, gvars, pvars, svars, tried, variant, max_results, iters, redisc, all_links, scroll, nnc, new_count, path, streak,
                   one_each, seen_links, found, url_idx, exit_by>>

ONext ==
    \/ OLoopTest
    \/ OQuery
    \/ OQueryRaises
    \/ \E e \in Raw : OForStep(e)
    \/ OForEnd
    \/ OForEndRaises
    \/ OCheck
    \/ OScroll
    \/ SLoopTest
    \/ SGet
    \/ SGetRaises
    \/ OReturn
    \/ SReturn

----------------------------------------------------------------------------
(* The detail sessions: run_extraction (enhanced) and run_scraping (optimized) *)

\* mutant: the class also defines _safe_extract
EnhancedAttrsWithSafeExtract ==
    {"search_query", "max_results", "visit_websites", "results", "extracted_count",
     "chrome_options", "driver", "wait", "max_retries", "retry_delay",
     "email_patterns", "phone_patterns",
     "search_google_maps", "get_business_links", "extract_business_data",
     "_extract_business_name", "_extract_address", "_extract_rating_and_reviews",
     "_extract_category", "_extract_website", "_extract_phone_enhanced", "cleanup",
     "_safe_extract"}

\* the names self.<name> resolves for an EnhancedGoogleMapsBusinessScraper:
\* the attributes __init__ sets and the methods the class defines.  The class
\* defines no _safe_extract and __init__ sets no contacts_found.
EnhancedAttrs ==
    {"search_query", "max_results", "visit_websites", "results", "extracted_count",
     "chrome_options", "driver", "wait", "max_retries", "retry_delay",
     "email_patterns", "phone_patterns",
     "search_google_maps", "get_business_links", "extract_business_data",
     "_extract_business_name", "_extract_address", "_extract_rating_and_reviews",
     "_extract_category", "_extract_website", "_extract_phone_enhanced", "cleanup"}

\* the same for an OptimizedGoogleMapsScraper
OptimizedAttrs ==
    {"search_query", "max_results", "extracted_count", "contacts_found", "seen_links",
     "batch_size", "phone_patterns", "driver", "wait",
     "search_and_extract_links", "extract_business_data", "_get_name", "_get_address",
     "_get_rating", "_get_category", "_get_website", "_get_phone", "cleanup"}

\* the same for a GoogleMapsBusinessScraper
BasicAttrs ==
    {"query", "location", "max_results", "min_results", "driver", "results", "headless",
     "debug_dir", "search", "scroll_for_more_results", "extract_business_data",
     "process_listings", "extract_business_info", "try_alternative_queries", "close"}

\* does looking up self.<name> succeed (otherwise it raises AttributeError)
HasAttr(name) ==
    name \in (IF variant = "enhanced" THEN EnhancedAttrs
              ELSE IF variant = "optimized" THEN OptimizedAttrs ELSE BasicAttrs)

\* the sentinel _extract_business_name and _get_name return when no selector matched
UnknownBusiness == "Unknown Business"
\* stands for any name a selector found (non-empty, longer than one character)
SomeName == "Cafe Roma"
NoPhone == "None"
SomePhone == "+919876543210"

\* what the detail page of a link shows: whether driver.get loaded it, whether
\* a name selector finds a valid name, whether a phone selector finds a phone
Pages == [loaded : BOOLEAN, name : BOOLEAN, phone : BOOLEAN]

\* the value None of business_data
NoData == [isdata |-> FALSE, url |-> NoHref, name |-> "", mobile |-> NoPhone]

\* _extract_business_name / _get_name on the page
NameOn(page) == IF page.name THEN SomeName ELSE UnknownBusiness
\* _extract_phone_enhanced / _get_phone on the page
PhoneOn(page) == IF page.phone THEN SomePhone ELSE NoPhone

\* the dict built by extract_business_data
DataOf(link, page) ==
    [isdata |-> TRUE, url |-> link, name |-> NameOn(page), mobile |-> PhoneOn(page)]

\* EnhancedGoogleMapsBusinessScraper.extract_business_data: driver.get may
\* raise, and line 726 looks up self._safe_extract; every exception is caught
\* at line 751 and None is returned
EExtractBusinessData(link, page) ==
    IF ~page.loaded THEN NoData
    ELSE IF ~HasAttr("_safe_extract") THEN NoData
    ELSE DataOf(link, page)

\* OptimizedGoogleMapsScraper.extract_business_data
OExtractBusinessData(link, page) ==
    IF ~page.loaded THEN NoData ELSE DataOf(link, page)

\* the lists get_business_links / search_and_extract_links can return:
\* distinct place URLs, at most max_results of them
LinkLists ==
    UNION {{Prefix(o, max_results) : o \in Orderings(S)} : S \in SUBSET Hrefs}

\* return <value> inside try ... finally: self.cleanup()
Returns(value) ==
    /\ ret' = value
    /\ phase' = "cleanup"

\* lines 990-992: search_google_maps() returned True
RSearch ==
    /\ phase = "r_search"
    /\ phase' = "r_links"
    /\ UNCHANGED <<xvars, fvars, gvars, pvars, hvars, raised, variant, max_results, links, idx, results, successful, failed,
                   contacts_found, extracted_count, pages, driver_quit, ret>>

\* lines 990-992: search_google_maps() returned False
RSearchFails ==
    /\ phase = "r_search"
    /\ Returns(<<>>)
    /\ UNCHANGED <<xvars, fvars, gvars, pvars, hvars, raised, variant, max_results, links, idx, results, successful, failed,
                   contacts_found, extracted_count, pages, driver_quit>>

\* lines 995-1007: business_links = self.get_business_links()
RLinks ==
    /\ phase = "r_links"
    /\ \E l \in LinkLists :
          /\ links' = l
          /\ IF l = <<>>
             THEN Returns(<<>>)
             ELSE phase' = "r_item" /\ UNCHANGED ret
    /\ UNCHANGED <<xvars, fvars, gvars, pvars, hvars, raised, variant, max_results, idx, results, successful, failed,
                   contacts_found, extracted_count, pages, driver_quit>>

\* lines 1009-1025: one pass of the detail loop of run_extraction
RItem(page) ==
    /\ phase = "r_item"
    /\ idx < Len(links)
    /\ LET link == links[idx + 1]
           business_data == EExtractBusinessData(link, page)
       IN
       /\ pages' = Append(pages, [url |-> link, page |-> page])
       /\ extracted_count' = IF business_data.isdata THEN extracted_count + 1 ELSE extracted_count
       /\ IF business_data.isdata /\ business_data.name # UnknownBusiness
          THEN /\ results' = Append(results, business_data)
               /\ successful' = successful + 1
               /\ IF business_data.mobile # NoPhone
                  THEN IF HasAttr("contacts_found")
                       THEN contacts_found' = contacts_found + 1 /\ UNCHANGED failed
                       \* AttributeError, caught at line 1023
                       ELSE failed' = failed + 1 /\ UNCHANGED contacts_found
                  ELSE UNCHANGED <<contacts_found, failed>>
          ELSE /\ failed' = failed + 1
               /\ UNCHANGED <<results, successful, contacts_found>>
    /\ idx' = idx + 1
    /\ UNCHANGED <<xvars, fvars, gvars, pvars, hvars, raised, variant, max_results, phase, links, driver_quit, ret>>

\* mutant: the AttributeError of the summary is not caught
RSummaryPropagates ==
    /\ phase = "r_item"
    /\ idx = Len(links)
    /\ IF HasAttr("contacts_found")
       THEN Returns(results) /\ UNCHANGED raised
       ELSE raised' = "AttributeError" /\ phase' = "cleanup" /\ UNCHANGED ret
    /\ UNCHANGED <<xvars, fvars, gvars, pvars, hvars, variant, max_results, links, idx, results, successful, failed,
                   contacts_found, extracted_count, pages, driver_quit>>

\* lines 1037-1055: the summary reads self.contacts_found; an AttributeError
\* lands in the outer except, which returns []
RSummary ==
    /\ phase = "r_item"
    /\ idx = Len(links)
    /\ Returns(IF HasAttr("contacts_found") THEN results ELSE <<>>)
    /\ UNCHANGED <<xvars, fvars, gvars, pvars, hvars, raised, variant, max_results, links, idx, results, successful, failed,
                   contacts_found, extracted_count, pages, driver_quit>>

\* lines 474-477: business_links = self.search_and_extract_links()
PLinks ==
    /\ phase = "p_links"
    /\ \E l \in LinkLists :
          /\ links' = l
          /\ IF l = <<>>
             THEN Returns(<<>>)
             ELSE phase' = "p_item" /\ UNCHANGED ret
    /\ UNCHANGED <<xvars, fvars, gvars, pvars, hvars, raised, variant, max_results, idx, results, successful, failed,
                   contacts_found, extracted_count, pages, driver_quit>>

\* mutant: a failed extraction ends the detail loop
PItemAbortsOnFailure(page) ==
    /\ phase = "p_item"
    /\ idx < Len(links)
    /\ LET link == links[idx + 1]
           business_data == OExtractBusinessData(link, page)
       IN
       /\ pages' = Append(pages, [url |-> link, page |-> page])
       /\ extracted_count' = IF business_data.isdata THEN extracted_count + 1 ELSE extracted_count
       /\ contacts_found' = IF business_data.isdata /\ business_data.mobile # NoPhone
                            THEN contacts_found + 1 ELSE contacts_found
       /\ results' = IF business_data.isdata THEN Append(results, business_data) ELSE results
       /\ IF business_data.isdata THEN UNCHANGED <<phase, ret>> ELSE Returns(<<>>)
    /\ idx' = idx + 1
    /\ UNCHANGED <<xvars, fvars, gvars, pvars, hvars, raised, variant, max_results, links, successful, failed,
                   driver_quit>>

\* lines 483-491: one pass of the detail loop of run_scraping
PItem(page) ==
    /\ phase = "p_item"
    /\ idx < Len(links)
    /\ LET link == links[idx + 1]
           business_data == OExtractBusinessData(link, page)
       IN
       /\ pages' = Append(pages, [url |-> link, page |-> page])
       /\ extracted_count' = IF business_data.isdata THEN extracted_count + 1 ELSE extracted_count
       /\ contacts_found' = IF business_data.isdata /\ business_data.mobile # NoPhone
                            THEN contacts_found + 1 ELSE contacts_found
       /\ results' = IF business_data.isdata THEN Append(results, business_data) ELSE results
    /\ idx' = idx + 1
    /\ UNCHANGED <<xvars, fvars, gvars, pvars, hvars, raised, variant, max_results, phase, links, successful, failed,
                   driver_quit, ret>>

\* mutant: the run ends with an empty list
PSummaryDropsResults ==
    /\ phase = "p_item"
    /\ idx = Len(links)
    /\ Returns(<<>>)
    /\ UNCHANGED <<xvars, fvars, gvars, pvars, hvars, raised, variant, max_results, links, idx, results, successful, failed,
                   contacts_found, extracted_count, pages, driver_quit>>

\* lines 496-507: return results
PSummary ==
    /\ phase = "p_item"
    /\ idx = Len(links)
    /\ Returns(results)
    /\ UNCHANGED <<xvars, fvars, gvars, pvars, hvars, raised, variant, max_results, links, idx, results, successful, failed,
                   contacts_found, extracted_count, pages, driver_quit>>

\* finally: self.cleanup()
Cleanup ==
    /\ phase = "cleanup"
    /\ driver_quit' = TRUE
    /\ phase' = "done"
    /\ UNCHANGED <<xvars, fvars, gvars, pvars, hvars, raised, variant, max_results, links, idx, results, successful, failed,
                   contacts_found, extracted_count, pages, ret>>

\* KeyboardInterrupt (Ctrl-C, SIGINT) arrives while run_extraction or
\* run_scraping is inside its try block: it is no Exception, so neither the
\* per-item handler nor the outer "except Exception" catches it; the finally
\* clause runs cleanup() and the interrupt goes on to the caller
Interrupt ==
    /\ phase \in {"r_search", "r_links", "r_item", "p_links", "p_item"}
    /\ raised' = "KeyboardInterrupt"
    /\ phase' = "cleanup"
    /\ UNCHANGED <<xvars, fvars, gvars, pvars, hvars, variant, max_results, links, idx, results, successful, failed,
                   contacts_found, extracted_count, pages, driver_quit, ret>>

(* scrape_google_maps (google_maps_scraper.py) *)

\* line 956: scraper.search() returned (it catches every Exception itself)
GSearch ==
    /\ phase = "g_search"
    /\ phase' = "g_close"
    /\ UNCHANGED <<xvars, fvars, gvars, pvars, hvars, raised, variant, max_results, links, idx, results, successful,
                   failed, contacts_found, extracted_count, pages, driver_quit, ret>>

\* line 956: KeyboardInterrupt arrives during scraper.search(); nothing in
\* scrape_google_maps catches it and there is no finally clause
GInterrupt ==
    /\ phase = "g_search"
    /\ raised' = "KeyboardInterrupt"
    /\ phase' = "done"
    /\ UNCHANGED <<xvars, fvars, gvars, pvars, hvars, variant, max_results, links, idx, results, successful, failed,
                   contacts_found, extracted_count, pages, driver_quit, ret>>

\* lines 957-958: scraper.close() quits the driver; return scraper.results
GClose ==
    /\ phase = "g_close"
    /\ driver_quit' = TRUE
    /\ ret' = results
    /\ phase' = "done"
    /\ UNCHANGED <<xvars, fvars, gvars, pvars, hvars, raised, variant, max_results, links, idx, results, successful,
                   failed, contacts_found, extracted_count, pages>>

\* lines 942-944, 957: driver.quit() raised inside close(), which has no handler
GCloseRaises ==
    /\ phase = "g_close"
    /\ driver_quit' = TRUE
    /\ raised' = "WebDriverException"
    /\ phase' = "done"
    /\ UNCHANGED <<xvars, fvars, gvars, pvars, hvars, variant, max_results, links, idx, results, successful, failed,
                   contacts_found, extracted_count, pages, ret>>

SessionNext ==
    \/ RSearch
    \/ RSearchFails
    \/ RLinks
    \/ \E page \in Pages : RItem(page)
    \/ RSummary
    \/ PLinks
    \/ \E page \in Pages : PItem(page)
    \/ PSummary
    \/ Cleanup
    \/ Interrupt
    \/ GSearch
    \/ GInterrupt
    \/ GClose
    \/ GCloseRaises

----------------------------------------------------------------------------
(* OptimizedGoogleMapsScraper._format_phone_number *)

\* A string is a sequence of characters; a character is a digit 0..9 or one
\* of the codes below.
Plus == 10
\* stands for any other non-digit character (space, dash, parenthesis, letter)
Dash == 11
\* the value None
Absent == <<-1>>
\* no call has been made yet
NotCalled == <<-2>>

IsDigit(c) == c \in 0..9
\* mutant: the plus sign survives the cleaning
DigitsAndPlus(str) == SelectSeq(str, LAMBDA c : IsDigit(c) \/ c = Plus)

\* re.sub(r'\D', '', phone)
Digits(str) == SelectSeq(str, IsDigit)

\* the country codes of the tuple passed to digits.startswith, by length
CountryCodes1 ==
    {1, 7}
CountryCodes2 ==
    {20, 27, 30, 31, 32, 33, 34, 36, 39, 40, 41, 43, 44, 45, 46, 47, 48, 49, 51, 52, 53, 54,
    55, 56, 57, 58, 60, 61, 62, 63, 64, 65, 66, 81, 82, 84, 86, 90, 91, 92, 93, 94, 95, 98}
CountryCodes3 ==
    {211, 212, 213, 216, 218, 220, 221, 222, 223, 224, 225, 226, 227, 228, 229, 230, 231,
    232, 233, 234, 235, 236, 237, 238, 239, 240, 241, 242, 243, 244, 245, 246, 247, 248,
    249, 250, 251, 252, 253, 254, 255, 256, 257, 258, 260, 261, 262, 263, 264, 265, 266,
    267, 268, 269, 290, 291, 297, 298, 299, 350, 351, 352, 353, 354, 355, 356, 357, 358,
    359, 370, 371, 372, 373, 374, 375, 376, 377, 378, 379, 380, 381, 382, 383, 385, 386,
    387, 389, 420, 421, 423, 500, 501, 502, 503, 504, 505, 506, 507, 508, 509, 590, 591,
    592, 593, 594, 595, 596, 597, 598, 599, 670, 672, 673, 674, 675, 676, 677, 678, 679,
    680, 681, 682, 683, 685, 686, 687, 688, 689, 690, 691, 692, 693, 694, 695, 696, 697,
    698, 850, 852, 853, 855, 856, 870, 872, 880, 886, 960, 961, 962, 963, 964, 965, 966,
    967, 968, 970, 971, 972, 973, 974, 975, 976, 977, 992, 993, 994, 995, 996, 998}

\* mutant: only the one-digit country codes are recognised
StartsWithOneDigitCode(digits) == digits[1] \in CountryCodes1

\* digits.startswith((...)) for a digit string of at least 10 digits
StartsWithCountryCode(digits) ==
    \/ digits[1] \in CountryCodes1
    \/ 10 * digits[1] + digits[2] \in CountryCodes2
    \/ 100 * digits[1] + 10 * digits[2] + digits[3] \in CountryCodes3

\* mutant: a leading 6 is not taken for an Indian mobile number
IndianMobileLeadNarrow(d) == d \in 7..9

\* digits[i] in '6789'
IndianMobileLead(d) == d \in 6..9
\* len(digits) == 10 (lines 389, 422) / len(digits) == 12 (line 393)
NationalLen == 10
IndianIntlLen == 12
\* mutant: nine digits are enough for an international number
IntlMinDigitsNine == NationalLen - 1

\* len(digits) >= 10 (line 397)
IntlMinDigits == 10
\* mutant: the fallback country code is 91
USCanadaCodeIndia == 90 + 1

\* f"+1{digits}" (line 423)
USCanadaCode == 1

FormatPhoneNumber(str) ==
    IF str = <<>> \/ str = Absent THEN Absent
    ELSE LET digits == Digits(str) IN
         IF digits = <<>> THEN Absent
         ELSE IF Len(digits) = NationalLen /\ IndianMobileLead(digits[1])
              THEN <<Plus, 9, 1>> \o digits
         ELSE IF /\ Len(digits) = IndianIntlLen
                 /\ digits[1] = 9 /\ digits[2] = 1
                 /\ IndianMobileLead(digits[3])
              THEN <<Plus>> \o digits
         ELSE IF Len(digits) >= IntlMinDigits
              THEN IF StartsWithCountryCode(digits) THEN <<Plus>> \o digits
                   ELSE IF Len(digits) = NationalLen THEN <<Plus, USCanadaCode>> \o digits
                   ELSE Absent
         ELSE Absent

\* the characters the first HeadLen positions of an argument are drawn from,
\* and the digit every later position holds
PhoneChars == {0, 1, 2, 5, 6, 9, Plus, Dash}
FillDigit == 0

\* the caller builds the argument, one character at a time
TypeChar(c) ==
    /\ formatted = NotCalled
    /\ extracted = NotCalled
    /\ Len(phone) < MaxPhoneLen
    /\ c \in (IF Len(phone) < HeadLen THEN PhoneChars ELSE {FillDigit})
    /\ phone' = Append(phone, c)
    /\ UNCHANGED <<xvars, variant, max_results, hvars, svars, fvars, gvars, formatted, extracted>>

\* formatted_phone = self._format_phone_number(phone)
FormatCall ==
    /\ variant = "optimized"
    /\ formatted = NotCalled
    /\ extracted = NotCalled
    /\ formatted' = FormatPhoneNumber(phone)
    /\ UNCHANGED <<xvars, variant, max_results, hvars, svars, fvars, gvars, phone, extracted>>

\* a match needs one digit less
EMinPhoneDigitsNine == NationalLen - 1

\* "if len(digits) >= 10" of the enhanced phone extractors (lines 937, 969)
EMinPhoneDigits == 10

\* enhanced lines 964-970 (and 931-938): phone is the text a pattern matched;
\* it is returned as it stands when it holds enough digits, else the next
\* pattern or text source is tried
ETryMatch ==
    /\ variant = "enhanced"
    /\ extracted = NotCalled
    /\ IF Len(Digits(phone)) >= EMinPhoneDigits
       THEN extracted' = phone /\ UNCHANGED phone
       ELSE phone' = <<>> /\ UNCHANGED extracted
    /\ UNCHANGED <<xvars, variant, max_results, hvars, svars, fvars, gvars, formatted>>

\* optimized lines 441-454: phone is the first match of a pattern; what
\* _format_phone_number makes of it is returned when it is truthy, else the
\* next pattern or text source is tried
OTryMatch ==
    /\ variant = "optimized"
    /\ formatted = NotCalled
    /\ extracted = NotCalled
    /\ LET formatted_phone == FormatPhoneNumber(phone)
       IN IF formatted_phone # Absent /\ formatted_phone # <<>>
          THEN extracted' = formatted_phone /\ UNCHANGED phone
          ELSE phone' = <<>> /\ UNCHANGED extracted
    /\ UNCHANGED <<xvars, variant, max_results, hvars, svars, fvars, gvars, formatted>>

\* "return None" once every element, text source and pattern has been tried
\* (enhanced lines 940, 972; optimized lines 371, 456)
NoMoreMatches ==
    /\ formatted = NotCalled
    /\ extracted = NotCalled
    /\ phone = <<>>
    /\ extracted' = Absent
    /\ UNCHANGED <<xvars, variant, max_results, hvars, svars, fvars, gvars, phone, formatted>>

PhoneNext ==
    \/ \E c \in PhoneChars : TypeChar(c)
    \/ FormatCall
    \/ ETryMatch
    \/ OTryMatch
    \/ NoMoreMatches

----------------------------------------------------------------------------

(* The field extractors of a detail page: _extract_business_name,
   _extract_address, _extract_category, _extract_rating_and_reviews
   (enhanced) and _get_name, _get_address, _get_category, _get_rating
   (optimized) *)

\* a blank, and the decimal point
Space == 12
Dot == 13
\* find_element raised for the selector (no such element, stale element, ...)
Raises == <<-7>>
\* the literals 'Unknown Business', 'Address not found', 'Category not found'
NameNotFound == <<-3>>
AddressNotFound == <<-4>>
CategoryNotFound == <<-5>>

EnhancedFields == {"_extract_business_name", "_extract_address", "_extract_category",
                   "_extract_rating_and_reviews"}
OptimizedFields == {"_get_name", "_get_address", "_get_category", "_get_rating"}
Fields == EnhancedFields \cup OptimizedFields

NameFields == {"_extract_business_name", "_get_name"}
AddressFields == {"_extract_address", "_get_address"}
CategoryFields == {"_extract_category", "_get_category"}
RatingFields == {"_extract_rating_and_reviews", "_get_rating"}

\* len() of the selector list of each extractor
NumSelectors(f) ==
    CASE f = "_extract_business_name" -> 9
      [] f = "_extract_address" -> 7
      [] f = "_extract_category" -> 4
      [] f = "_extract_rating_and_reviews" -> 5
      [] f = "_get_name" -> 3
      [] f = "_get_address" -> 2
      [] f = "_get_category" -> 2
      [] f = "_get_rating" -> 2

\* the length a text has to exceed: len(name) > 1, len(address) > 5, len(category) > 2
MinLen(f) ==
    IF f \in NameFields THEN 1 ELSE IF f \in AddressFields THEN 5 ELSE 2

\* what the extractor returns after the last selector
NotFound(f) ==
    IF f \in NameFields THEN NameNotFound
    ELSE IF f \in AddressFields THEN AddressNotFound
    ELSE IF f \in CategoryFields THEN CategoryNotFound
    ELSE Absent

\* str.strip()
RECURSIVE Strip(_)
Strip(str) ==
    IF str = <<>> THEN str
    ELSE IF Head(str) = Space THEN Strip(Tail(str))
    ELSE IF str[Len(str)] = Space THEN Strip(SubSeq(str, 1, Len(str) - 1))
    ELSE str

\* the longest run of digits a string starts with
RECURSIVE DigitRun(_)
DigitRun(str) ==
    IF str # <<>> /\ IsDigit(Head(str)) THEN <<Head(str)>> \o DigitRun(Tail(str)) ELSE <<>>

\* the string from its first digit on
RECURSIVE FromFirstDigit(_)
FromFirstDigit(str) ==
    IF str = <<>> \/ IsDigit(Head(str)) THEN str ELSE FromFirstDigit(Tail(str))

\* the number a string of digits writes
RECURSIVE ToNumber(_)
ToNumber(digits) ==
    IF digits = <<>> THEN 0
    ELSE 10 * ToNumber(SubSeq(digits, 1, Len(digits) - 1)) + digits[Len(digits)]

\* float(re.search(r'(\d+\.?\d*)', text).group(1)), as <<n, k>> for n / 10^k;
\* Absent when the text holds no digit
ParseRating(text) ==
    LET s == FromFirstDigit(text)
        whole == DigitRun(s)
        rest == SubSeq(s, Len(whole) + 1, Len(s))
        frac == IF rest # <<>> /\ Head(rest) = Dot THEN DigitRun(Tail(rest)) ELSE <<>>
    IN IF s = <<>> THEN Absent ELSE <<ToNumber(whole \o frac), Len(frac)>>

\* the test that makes a selector the winning one
Valid(f, outcome) ==
    /\ outcome # Raises
    /\ IF f \in RatingFields THEN ParseRating(Strip(outcome)) # Absent
       ELSE Len(Strip(outcome)) > MinLen(f)

\* what the extractor returns for the winning selector
ValueOf(f, outcome) ==
    IF f \in RatingFields THEN ParseRating(Strip(outcome)) ELSE Strip(outcome)

\* a text of n characters c
Text(n, c) == [i \in 1..n |-> c]

\* what a selector can produce: the lookup raises, or the element's text is
\* blank, one character too short (inside blanks), or long enough
TextOutcomes(f) ==
    {Raises, <<Space, Space>>, <<Space>> \o Text(MinLen(f), Dash) \o <<Space>>,
     Text(MinLen(f) + 1, Dash), <<Space>> \o Text(MinLen(f) + 1, 7)}

\* for a rating: the lookup raises, the text is blank or "New", or it is
\* "4.5", "(3)", " 5 " or "128"
RatingOutcomes ==
    {Raises, <<Space>>, <<Dash, Dash>>,
     <<4, Dot, 5>>, <<Dash, 3, Dash>>, <<Space, 5, Space>>, <<1, 2, 8>>}

Outcomes(f) == IF f \in RatingFields THEN RatingOutcomes ELSE TextOutcomes(f)

\* the loop without its return: the last selector with a valid value wins
TrySelectorLastWins(outcome) ==
    /\ Len(seen) < NumSelectors(field)
    /\ seen' = Append(seen, outcome)
    /\ field_value' = IF Valid(field, outcome) THEN ValueOf(field, outcome) ELSE field_value
    /\ UNCHANGED <<xvars, variant, max_results, hvars, svars, pvars, gvars, field>>

\* the loop without "except: continue": a lookup that raises ends the call
TrySelectorUnguarded(outcome) ==
    /\ field_value = NotCalled
    /\ Len(seen) < NumSelectors(field)
    /\ seen' = Append(seen, outcome)
    /\ field_value' = IF outcome = Raises THEN Raises
                ELSE IF Valid(field, outcome) THEN ValueOf(field, outcome) ELSE field_value
    /\ UNCHANGED <<xvars, variant, max_results, hvars, svars, pvars, gvars, field>>

\* one pass of "for selector in selectors": the lookup, the test, the return
TrySelector(outcome) ==
    /\ field_value = NotCalled
    /\ Len(seen) < NumSelectors(field)
    /\ seen' = Append(seen, outcome)
    /\ field_value' = IF Valid(field, outcome) THEN ValueOf(field, outcome) ELSE field_value
    /\ UNCHANGED <<xvars, variant, max_results, hvars, svars, pvars, gvars, field>>

\* the return after the loop
ChainEnd ==
    /\ field_value = NotCalled
    /\ field \in Fields
    /\ Len(seen) = NumSelectors(field)
    /\ field_value' = NotFound(field)
    /\ UNCHANGED <<xvars, variant, max_results, hvars, svars, pvars, gvars, field, seen>>

FieldNext ==
    \/ \E outcome \in Outcomes(field) : TrySelector(outcome)
    \/ ChainEnd

FieldIdle ==
    /\ field = "none"
    /\ seen = <<>>
    /\ field_value = NotCalled

----------------------------------------------------------------------------
(* GoogleMapsBusinessScraper (google_maps_scraper.py): search,
   capture_evidence and scroll_for_more_results *)

\* a call raised instead of returning a number
Raised == -1

\* max_scroll_attempts and max_no_new_results of scroll_for_more_results
GMaxScrollAttempts == 50
GMaxNoNewResults == 5
\* "if scroll_attempts % 5 == 0"
GAltScrollEvery == 5

\* no capture_evidence call in the last step
NoCapture == [called |-> FALSE, shot_ok |-> FALSE, dump_ok |-> FALSE]
Capture(shot_ok, dump_ok) == [called |-> TRUE, shot_ok |-> shot_ok, dump_ok |-> dump_ok]

\* capture_evidence(name, page_source=True) with every statement inside its own try
CaptureEvidenceUnguarded(shot_ok, dump_ok, length) ==
    IF shot_ok /\ dump_ok THEN length ELSE Raised

\* capture_evidence(name, page_source=True): the screenshot and the page dump
\* each sit in a try / except Exception; the length of the page source is
\* returned from inside the second try, 0 after it
CaptureEvidence(shot_ok, dump_ok, length) ==
    IF dump_ok THEN length ELSE 0

\* lines 264-290 of search: load the location, capture, enter the query,
\* capture, dismiss the cookie dialog
SearchOpen(get_ok, shot_ok, dump_ok, length) ==
    /\ gpc = "search"
    /\ IF get_ok /\ CaptureEvidence(shot_ok, dump_ok, length) # Raised
       THEN gpc' = "scroll_start" /\ captured' = Capture(shot_ok, dump_ok)
       ELSE gpc' = "handler" /\ captured' = NoCapture
    /\ UNCHANGED <<xvars, variant, max_results, hvars, svars, pvars, fvars, scroll_container,
                   last_height, scroll_attempts, no_new_results_count, n_results,
                   initial_source_length, final_source_length, loops, escaped>>

\* lines 345-366: look for the scroll container, reset the counters, capture
\* the state before scrolling
ScrollStart(has_container, shot_ok, dump_ok, length) ==
    /\ gpc = "scroll_start"
    /\ scroll_container' = has_container
    /\ last_height' = 0
    /\ scroll_attempts' = 0
    /\ no_new_results_count' = 0
    /\ LET r == CaptureEvidence(shot_ok, dump_ok, length)
       IN IF r = Raised
          THEN gpc' = "handler" /\ escaped' = "Exception" /\ UNCHANGED initial_source_length
          ELSE gpc' = "loop" /\ initial_source_length' = r /\ UNCHANGED escaped
    /\ captured' = Capture(shot_ok, dump_ok)
    /\ UNCHANGED <<xvars, variant, max_results, hvars, svars, pvars, fvars, n_results,
                   final_source_length, loops>>

\* lines 368-370
ScrollLoopCondition ==
    /\ scroll_attempts < GMaxScrollAttempts
    /\ n_results < max_results
    /\ no_new_results_count < GMaxNoNewResults

\* the passes without a new result are not counted
NoNewResultsNever(count, previous, now) ==
    IF now = previous THEN count ELSE 0

\* lines 453-457
NoNewResultsNext(count, previous, now) ==
    IF now = previous THEN count + 1 ELSE 0

\* what a scroll (lines 375-390) can do
ScrollOutcomes == {"ok", "StaleElementReferenceException", "TimeoutException"}

\* lines 372-465, one pass of the while loop.  scrolled: what the scroll scripts
\* did; refound: the container was found again after it went stale; height:
\* the scroll height read at 430/432, or Raised; alt_ok: the scrollBy of line
\* 440 went through; handler_height: the height read by the handler at line
\* 447, or Raised; new: the listings extract_business_data could add
ScrollIteration(scrolled, refound, height, alt_ok, handler_height, new) ==
    /\ gpc = "loop"
    /\ ScrollLoopCondition
    /\ scrolled = "StaleElementReferenceException" => scroll_container
    /\ loops' = loops + 1
    /\ captured' = NoCapture
    /\ IF scrolled = "TimeoutException"
       THEN \* only StaleElementReferenceException is caught at line 391
            /\ gpc' = "handler"
            /\ escaped' = scrolled
            /\ UNCHANGED <<scroll_container, last_height, scroll_attempts,
                           no_new_results_count, n_results>>
       ELSE LET same == height # Raised /\ height = last_height
                attempts == IF height = Raised THEN scroll_attempts
                            ELSE IF same THEN scroll_attempts + 1 ELSE 0
                to_handler == \/ height = Raised
                              \/ same /\ attempts % GAltScrollEvery = 0 /\ ~alt_ok
                now == Min(n_results + new, max_results)
            IN /\ scroll_container' =
                      (IF scrolled = "StaleElementReferenceException" THEN refound
                       ELSE scroll_container)
               /\ scroll_attempts' = attempts
               /\ IF to_handler /\ handler_height = Raised
                  THEN \* the query of line 447 sits in the except clause
                       /\ gpc' = "handler"
                       /\ escaped' = "TimeoutException"
                       /\ UNCHANGED <<last_height, no_new_results_count, n_results>>
                  ELSE /\ last_height' = (IF to_handler THEN handler_height ELSE height)
                       /\ n_results' = now
                       /\ no_new_results_count' =
                              NoNewResultsNext(no_new_results_count, n_results, now)
                       /\ UNCHANGED <<gpc, escaped>>
    /\ UNCHANGED <<xvars, variant, max_results, hvars, svars, pvars, fvars,
                   initial_source_length, final_source_length>>

\* lines 368-370 and 467-477: the loop is left, the state after scrolling is
\* captured and the two lengths are compared
ScrollFinish(shot_ok, dump_ok, length) ==
    /\ gpc = "loop"
    /\ ~ScrollLoopCondition
    /\ LET r == CaptureEvidence(shot_ok, dump_ok, length)
       IN IF r = Raised
          THEN gpc' = "handler" /\ escaped' = "Exception" /\ UNCHANGED final_source_length
          ELSE gpc' = "returned" /\ final_source_length' = r /\ UNCHANGED escaped
    /\ captured' = Capture(shot_ok, dump_ok)
    /\ UNCHANGED <<xvars, variant, max_results, hvars, svars, pvars, fvars, scroll_container,
                   last_height, scroll_attempts, no_new_results_count, n_results,
                   initial_source_length, loops>>

\* lines 296-303 of search: the alternative queries and the final extraction,
\* which may add listings up to max_results
SearchTail(new) ==
    /\ gpc = "returned"
    /\ n_results' = Min(n_results + new, max_results)
    /\ gpc' = "search_done"
    /\ captured' = NoCapture
    /\ UNCHANGED <<xvars, variant, max_results, hvars, svars, pvars, fvars, scroll_container,
                   last_height, scroll_attempts, no_new_results_count,
                   initial_source_length, final_source_length, loops, escaped>>

\* lines 305-308 of search: except Exception, capture the error state
SearchHandler(shot_ok, dump_ok, length) ==
    /\ gpc = "handler"
    /\ gpc' = (IF CaptureEvidence(shot_ok, dump_ok, length) = Raised
               THEN "search_raised" ELSE "search_done")
    /\ captured' = Capture(shot_ok, dump_ok)
    /\ UNCHANGED <<xvars, variant, max_results, hvars, svars, pvars, fvars, scroll_container,
                   last_height, scroll_attempts, no_new_results_count, n_results,
                   initial_source_length, final_source_length, loops, escaped>>

\* the heights, page lengths and listings per pass the view can show
Heights == 0..MaxHeight
PageLengths == 1..MaxPageLen
NewListings == 0..MaxNew

ScrollNext ==
    \/ \E get_ok, shot_ok, dump_ok \in BOOLEAN, length \in PageLengths :
          SearchOpen(get_ok, shot_ok, dump_ok, length)
    \/ \E has_container, shot_ok, dump_ok \in BOOLEAN, length \in PageLengths :
          ScrollStart(has_container, shot_ok, dump_ok, length)
    \/ \E scrolled \in ScrollOutcomes, refound, alt_ok \in BOOLEAN,
          height, handler_height \in Heights \cup {Raised}, new \in NewListings :
          ScrollIteration(scrolled, refound, height, alt_ok, handler_height, new)
    \/ \E shot_ok, dump_ok \in BOOLEAN, length \in PageLengths :
          ScrollFinish(shot_ok, dump_ok, length)
    \/ \E new \in NewListings : SearchTail(new)
    \/ \E shot_ok, dump_ok \in BOOLEAN, length \in PageLengths :
          SearchHandler(shot_ok, dump_ok, length)

ScrollIdle ==
    /\ gpc = "idle"
    /\ scroll_container = FALSE
    /\ last_height = 0
    /\ scroll_attempts = 0
    /\ no_new_results_count = 0
    /\ n_results = 0
    /\ initial_source_length = 0
    /\ final_source_length = 0
    /\ loops = 0
    /\ captured = NoCapture
    /\ escaped = "none"

----------------------------------------------------------------------------

(* process_listings and extract_business_info of the basic scraper
   (google_maps_scraper.py lines 599-637 and 639-882). A string is a sequence
   of one-character strings; a record is the pair <<name, address>> of the
   dictionary the code builds, the fields the duplicate test reads. *)

\* None
None == <<"None">>

\* 'N/A'
NA == <<"N/A">>

\* bool(x) of a string or None
Truthy(x) == x # None /\ x # <<>>

\* str.strip()
RECURSIVE StripText(_)
StripText(s) ==
    IF s = <<>> THEN s
    ELSE IF Head(s) = " " THEN StripText(Tail(s))
    ELSE IF s[Len(s)] = " " THEN StripText(SubSeq(s, 1, Len(s) - 1))
    ELSE s

\* str.lower(), on the capital letters of the texts below
Lower(c) ==
    CASE c = "A" -> "a" [] c = "B" -> "b" [] c = "M" -> "m"
      [] c = "R" -> "r" [] c = "S" -> "s" [] c = "Z" -> "z" [] OTHER -> c

LowerText(s) == [i \in 1..Len(s) |-> Lower(s[i])]

\* w in s
Contains(s, w) ==
    \E i \in 1..(Len(s) - Len(w) + 1) : SubSeq(s, i, i + Len(w) - 1) = w

\* s.split(w)[0]
SplitHead(s, w) ==
    IF Contains(s, w)
    THEN LET at == CHOOSE i \in 1..(Len(s) - Len(w) + 1) :
                       /\ SubSeq(s, i, i + Len(w) - 1) = w
                       /\ \A j \in 1..(i - 1) : SubSeq(s, j, j + Len(w) - 1) # w
         IN SubSeq(s, 1, at - 1)
    ELSE s

DigitChars == {"0", "1", "2", "3", "4", "5", "6", "7", "8", "9"}

\* any(char.isdigit() for char in s)
HasDigit(s) == \E i \in 1..Len(s) : s[i] \in DigitChars

Stars == <<"s", "t", "a", "r", "s">>
Reviews == <<"r", "e", "v", "i", "e", "w", "s">>

\* line 798: ['street', 'st', 'avenue', 'ave', 'road', 'rd', 'lane', 'ln']
StreetWords ==
    { <<"s", "t", "r", "e", "e", "t">>, <<"s", "t">>,
      <<"a", "v", "e", "n", "u", "e">>, <<"a", "v", "e">>,
      <<"r", "o", "a", "d">>, <<"r", "d">>,
      <<"l", "a", "n", "e">>, <<"l", "n">> }

\* the lengths of name_selectors (lines 643-657) and address_selectors (lines 782-788)
NumNameSelectors == 13
NumAddressSelectors == 5

\* line 663: len(name) > 1; line 794: len(address_text) > 5
NameMinLen == 1
AddressMinLen == 5

\* line 663: if name and len(name) > 1
NameAccepts(s) == Truthy(s) /\ Len(s) > NameMinLen

\* the length test left out
AddressAcceptsAnyLength(s) ==
    /\ Truthy(s)
    /\ \/ HasDigit(s)
       \/ \E w \in StreetWords : Contains(LowerText(s), w)

\* lines 794-798
AddressAccepts(s) ==
    /\ Truthy(s) /\ Len(s) > AddressMinLen
    /\ \/ HasDigit(s)
       \/ \E w \in StreetWords : Contains(LowerText(s), w)

\* what an element lookup inside a listing does: it yields the element's
\* text, or raises StaleElementReferenceException, or raises anything else
\* (NoSuchElementException when the selector matches nothing)
Lookup(texts) ==
    [kind : {"text"}, text : texts]
        \cup {[kind |-> "stale", text |-> None], [kind |-> "error", text |-> None]}

\* texts a name element can show: '', 'A', 'Al ', 'Bo'
NameTexts == { <<>>, <<"A">>, <<"A", "l", " ">>, <<"B", "o">> }

\* aria-label values of a listing: absent, 'Z', 'Al 4 stars'
AriaLabels ==
    { None, <<"Z">>, <<"A", "l", " ", "4", " ", "s", "t", "a", "r", "s">> }

\* texts an address element can show: '', '12 Rd', 'Main Rd', 'Suite 5', 'Bakery'
AddressTexts ==
    { <<>>,
      <<"1", "2", " ", "R", "d">>,
      <<"M", "a", "i", "n", " ", "R", "d">>,
      <<"S", "u", "i", "t", "e", " ", "5">>,
      <<"B", "a", "k", "e", "r", "y">> }

\* the ids of the listings of a page
ListingIds == 1..MaxListings

\* the duplicate test never finds anything
IsDuplicateNever(row) == row # row

\* lines 624-628
IsDuplicate(row) ==
    \E i \in 1..Len(records) : records[i][1] = row[1] /\ records[i][2] = row[2]

\* the result bound is never seen as reached
AtMaxResultsNever == max_results < max_results

\* lines 604, 517, 544, 567, 588: len(self.results) >= self.max_results
AtMaxResults == Len(records) >= max_results

\* the locals of extract_business_info outside a call
NoListing ==
    /\ cur_name' = None
    /\ cur_address' = None
    /\ selector_no' = 0
    /\ data' = None

\* a strategy of extract_business_data found n listings with one of its
\* selectors and calls process_listings (lines 551, 574, 595, 599-600)
ProcessListings(n) ==
    /\ lpc = "ready"
    /\ n >= 1
    /\ lpc' = "listing"
    /\ remaining' = n
    /\ seen_ids' = {}
    /\ UNCHANGED <<base, dvars, avars, records, cur_name, cur_address, selector_no, data>>

\* "for listing in listings" is over, or breaks at the result bound (lines 603-605)
ListingsEnd ==
    /\ lpc = "listing"
    /\ remaining = 0 \/ AtMaxResults
    /\ lpc' = "ready"
    /\ remaining' = 0
    /\ seen_ids' = {}
    /\ UNCHANGED <<base, dvars, avars, records, cur_name, cur_address, selector_no, data>>

\* the head of a pass of the for loop (lines 603-620): id is the listing's id,
\* or the get_attribute calls raise and one of the handlers of lines 634-637
\* ends the pass
ListingStep(id) ==
    /\ lpc = "listing"
    /\ remaining > 0 /\ ~AtMaxResults
    /\ remaining' = remaining - 1
    /\ IF id.kind = "text" /\ id.text \notin seen_ids
       THEN /\ seen_ids' = seen_ids \cup {id.text}
            /\ lpc' = "name"
            /\ selector_no' = 1
            /\ UNCHANGED <<cur_name, cur_address, data>>
       ELSE UNCHANGED <<seen_ids, lpc, selector_no, cur_name, cur_address, data>>
    /\ UNCHANGED <<base, dvars, avars, records>>

\* extract_business_info returns value to process_listings
InfoReturns(value) ==
    /\ data' = value
    /\ lpc' = "append"
    /\ selector_no' = 0

\* one pass of "for selector in name_selectors" (lines 659-670)
NameSelector(outcome) ==
    /\ lpc = "name"
    /\ selector_no \in 1..NumNameSelectors
    /\ CASE outcome.kind = "stale" ->
              InfoReturns(None) /\ UNCHANGED <<cur_name, cur_address>>
         [] outcome.kind = "error" ->
              /\ selector_no' = selector_no + 1
              /\ UNCHANGED <<lpc, cur_name, cur_address, data>>
         [] outcome.kind = "text" ->
              /\ cur_name' = StripText(outcome.text)
              /\ selector_no' = IF NameAccepts(StripText(outcome.text))
                                THEN NumNameSelectors + 1 ELSE selector_no + 1
              /\ UNCHANGED <<lpc, cur_address, data>>
    /\ UNCHANGED <<base, dvars, avars, records, remaining, seen_ids>>

\* lines 672-687, after the loop: the aria-label of the listing when there is
\* no name yet, and "if not name: return None"
NameEnd(label) ==
    /\ lpc = "name"
    /\ selector_no = NumNameSelectors + 1
    /\ LET taken == IF label.kind # "text" THEN cur_name
                    ELSE IF Truthy(label.text)
                            /\ (Contains(label.text, Stars) \/ Contains(label.text, Reviews))
                            /\ Truthy(StripText(SplitHead(label.text, Stars)))
                         THEN StripText(SplitHead(label.text, Stars))
                         ELSE label.text
           name == IF Truthy(cur_name) THEN cur_name ELSE taken
       IN IF ~Truthy(cur_name) /\ label.kind = "stale"
          THEN InfoReturns(None) /\ UNCHANGED <<cur_name, cur_address>>
          ELSE IF ~Truthy(name)
          THEN InfoReturns(None) /\ cur_name' = name /\ UNCHANGED cur_address
          ELSE /\ cur_name' = name
               /\ lpc' = "address"
               /\ selector_no' = 1
               /\ UNCHANGED <<cur_address, data>>
    /\ UNCHANGED <<base, dvars, avars, records, remaining, seen_ids>>

\* one pass of "for selector in address_selectors" (lines 790-805)
AddressSelector(outcome) ==
    /\ lpc = "address"
    /\ selector_no \in 1..NumAddressSelectors
    /\ IF outcome.kind = "text" /\ AddressAccepts(StripText(outcome.text))
       THEN /\ cur_address' = StripText(outcome.text)
            /\ selector_no' = NumAddressSelectors + 1
       ELSE /\ selector_no' = selector_no + 1
            /\ UNCHANGED cur_address
    /\ UNCHANGED <<base, dvars, avars, records, remaining, seen_ids, lpc, cur_name, data>>

\* lines 875-882: the dictionary is returned (rating, reviews, category and
\* the details, lines 689-778 and 807-873, fill other keys and cannot raise)
AddressEnd ==
    /\ lpc = "address"
    /\ selector_no = NumAddressSelectors + 1
    /\ InfoReturns(<<cur_name, IF Truthy(cur_address) THEN cur_address ELSE NA>>)
    /\ UNCHANGED <<base, dvars, avars, records, remaining, seen_ids, cur_name, cur_address>>

\* lines 622-632: the record is appended unless it is a duplicate
AppendStep ==
    /\ lpc = "append"
    /\ records' = IF data # None /\ Truthy(data[1]) /\ ~IsDuplicate(data)
                  THEN Append(records, data) ELSE records
    /\ lpc' = "listing"
    /\ NoListing
    /\ UNCHANGED <<base, dvars, avars, remaining, seen_ids>>

ListingNext ==
    \/ \E n \in 1..MaxListings : ProcessListings(n)
    \/ ListingsEnd
    \/ \E id \in Lookup(ListingIds) : ListingStep(id)
    \/ \E outcome \in Lookup(NameTexts) : NameSelector(outcome)
    \/ \E label \in Lookup(AriaLabels) : NameEnd(label)
    \/ \E outcome \in Lookup(AddressTexts) : AddressSelector(outcome)
    \/ AddressEnd
    \/ AppendStep

ListingIdle ==
    /\ lpc = "idle"
    /\ records = <<>>
    /\ remaining = 0
    /\ seen_ids = {}
    /\ cur_name = None
    /\ cur_address = None
    /\ selector_no = 0
    /\ data = None

----------------------------------------------------------------------------

(* The alternative queries of search (google_maps_scraper.py lines 296-303
   and 884-918).  A query is the sequence of its words. *)

\* self.query
Query == "cafe"

\* lines 889-894
SearchVariations ==
    << <<Query>>, <<Query, "near", "me">>, <<"best", Query>>, <<"top", "rated", Query>> >>

\* the test is never seen to fail
BelowMinResultsAlways == min_results = min_results

\* lines 296 and 897: len(self.results) < self.min_results
BelowMinResults == n_results < min_results

\* what the steps of search after the first scroll phase leave alone
QueryFrame ==
    <<variant, max_results, hvars, svars, pvars, fvars, dvars, lvars,
      scroll_container, last_height, scroll_attempts, no_new_results_count,
      initial_source_length, final_source_length, loops, escaped>>

\* lines 296-298: after the first scroll phase search decides whether
\* try_alternative_queries is called
AfterFirstScroll ==
    /\ gpc = "returned"
    /\ IF BelowMinResults
       THEN gpc' = "alternatives" /\ variation' = 1
       ELSE gpc' = "extract" /\ UNCHANGED variation
    /\ captured' = NoCapture
    /\ UNCHANGED <<QueryFrame, n_results, min_results, issued>>

\* one pass of "for variation in search_variations" (lines 896-918).  box_ok:
\* the search box became clickable and took the text; button_ok: the search
\* button was found and clicked; new: the listings the scroll phase of this
\* variation added before it returned or raised.  Whatever raises, the bare
\* except of line 917 goes on with the next variation.
TryVariation(box_ok, button_ok, new) ==
    /\ gpc = "alternatives"
    /\ variation \in 1..Len(SearchVariations)
    /\ BelowMinResults
    /\ issued' = IF box_ok THEN Append(issued, SearchVariations[variation]) ELSE issued
    /\ n_results' = IF box_ok /\ button_ok THEN Min(n_results + new, max_results)
                    ELSE n_results
    /\ variation' = variation + 1
    /\ UNCHANGED <<QueryFrame, gpc, captured, min_results>>

\* the for loop is over, or breaks at line 898
VariationsEnd ==
    /\ gpc = "alternatives"
    /\ variation > Len(SearchVariations) \/ ~BelowMinResults
    /\ gpc' = "extract"
    /\ variation' = 0
    /\ UNCHANGED <<QueryFrame, n_results, captured, min_results, issued>>

\* lines 300-303: the final extract_business_data
FinalExtraction(new) ==
    /\ gpc = "extract"
    /\ n_results' = Min(n_results + new, max_results)
    /\ gpc' = "search_done"
    /\ UNCHANGED <<QueryFrame, captured, min_results, variation, issued>>

QueryNext ==
    \/ AfterFirstScroll
    \/ \E box_ok, button_ok \in BOOLEAN, new \in NewListings :
           TryVariation(box_ok, button_ok, new)
    \/ VariationsEnd
    \/ \E new \in NewListings : FinalExtraction(new)

QueryIdle ==
    /\ min_results = 0
    /\ variation = 0
    /\ issued = <<>>

----------------------------------------------------------------------------


(* The delay after a harvest pass (get_business_links lines 494-506,
   _extract_links_optimized lines 214-216), in milliseconds *)

\* no pass has reached its delay yet
NotSlept == -1

\* random.uniform(a, b)
Uniform(a, b) == a..b

\* the two ranges exchanged
EDelaysSwapped(new) ==
    IF new > 0 THEN Uniform(500, 1000) ELSE Uniform(100, 500)

\* enhanced lines 495-498
EDelays(new) ==
    IF new > 0 THEN Uniform(100, 500) ELSE Uniform(500, 1000)

\* optimized line 215: delay = 0.3 if new_count > 0 else 0.8
ODelays(new) ==
    IF new > 0 THEN {300} ELSE {800}

Delays(v, new) == IF v = "enhanced" THEN EDelays(new) ELSE ODelays(new)

\* a pass that found new references reaches its delay and sleeps d
Sleep(new, d) ==
    /\ d \in Delays(variant, new)
    /\ delay' = d
    /\ slept' = new
    /\ UNCHANGED <<base, lvars, avars>>

\* the numbers of new references a pass can find
NewCounts == 0..MaxNew

DelayNext ==
    \E new \in NewCounts : \E d \in Delays(variant, new) : Sleep(new, d)

DelayIdle ==
    /\ delay = 0
    /\ slept = NotSlept

OtherIdle ==
    /\ DelayIdle
    /\ ListingIdle
    /\ QueryIdle

\* targets tried: the small ones, and two that move the enhanced scroll ceiling
ETargets == (0..MaxTarget) \cup {25, 60}

HarvestIdle ==
    /\ all_links = {}
    /\ scroll = 0
    /\ nnc = 0
    /\ new_count = 0
    /\ path = "none"
    /\ streak = <<>>
    /\ one_each = TRUE
    /\ iters = 0
    /\ redisc = FALSE
    /\ seen_links = {}
    /\ found = {}
    /\ url_idx = 0
    /\ exit_by = "running"
    /\ result = <<>>
    /\ tried = <<>>

SessionFresh ==
    /\ links = <<>>
    /\ idx = 0
    /\ results = <<>>
    /\ successful = 0
    /\ failed = 0
    /\ contacts_found = 0
    /\ extracted_count = 0
    /\ pages = <<>>
    /\ driver_quit = FALSE
    /\ ret = <<>>
    /\ raised = "none"
    /\ phone = <<>>
    /\ formatted = NotCalled
    /\ extracted = NotCalled

\* a call of get_business_links (enhanced) or search_and_extract_links (optimized)
Init ==
    /\ variant \in {"enhanced", "optimized"}
    /\ max_results \in (IF variant = "enhanced" THEN ETargets ELSE 0..MaxTarget)
    /\ pc = (IF variant = "enhanced" THEN "e_loop" ELSE "s_loop")
    /\ HarvestIdle
    /\ phase = "idle"
    /\ SessionFresh
    /\ OtherIdle
    /\ FieldIdle
    /\ ScrollIdle

Next == ENext \/ ONext

Spec == Init /\ [][Next]_vars

\* a call of run_extraction (enhanced), run_scraping (optimized) or
\* scrape_google_maps (basic)
SessionInit ==
    /\ variant \in {"enhanced", "optimized", "basic"}
    /\ max_results \in 0..MaxTarget
    /\ pc = "idle"
    /\ HarvestIdle
    /\ phase = (IF variant = "enhanced" THEN "r_search"
                ELSE IF variant = "optimized" THEN "p_links" ELSE "g_search")
    /\ SessionFresh
    /\ OtherIdle
    /\ FieldIdle
    /\ ScrollIdle

SessionSpec == SessionInit /\ [][SessionNext]_vars

----------------------------------------------------------------------------
(* The stub view of the spec's test: every query yields exactly one reference
   that was never seen before.  The code is the same; only the environment's
   choices are narrowed, so that a run can make progress in every one of its
   50 iterations. *)

\* the next never-seen place URL (one without a query string)
FreshHref == [kind |-> "place", id |-> 2 * Cardinality(all_links) + 1]

StubEForStep == new_count = 0 /\ EForStep(FreshHref)
StubEForEnd == new_count = 1 /\ EForEnd
StubOForStep == new_count = 0 /\ OForStep(FreshHref)
StubOForEnd == new_count = 1 /\ OForEnd
\* the return of get_business_links, followed for the stores small enough to
\* enumerate the orders list(all_links) can give
StubEReturn == Cardinality(all_links) <= NumHrefs /\ EReturn

\* targets below, at and above the scroll ceilings
StubTargets == {1, 2, 3, 19, 20, 21, 49, 50, 51, 60}

\* a call of get_business_links or of _extract_links_optimized
StubInit ==
    /\ variant \in {"enhanced", "optimized"}
    /\ max_results \in StubTargets
    /\ pc = (IF variant = "enhanced" THEN "e_loop" ELSE "o_loop")
    /\ HarvestIdle
    /\ phase = "idle"
    /\ SessionFresh
    /\ OtherIdle
    /\ FieldIdle
    /\ ScrollIdle

StubNext ==
    \/ ELoopTest
    \/ EQueryScript
    \/ StubEForStep
    \/ StubEForEnd
    \/ ECheck
    \/ EScroll
    \/ EScrollRaises
    \/ StubEReturn
    \/ OLoopTest
    \/ OQuery
    \/ StubOForStep
    \/ StubOForEnd
    \/ OCheck
    \/ OScroll

StubSpec == StubInit /\ [][StubNext]_vars

\* calls of _format_phone_number and of the phone extractors
PhoneInit ==
    /\ variant \in {"enhanced", "optimized"}
    /\ max_results = 0
    /\ pc = "idle"
    /\ HarvestIdle
    /\ phase = "idle"
    /\ SessionFresh
    /\ OtherIdle
    /\ FieldIdle
    /\ ScrollIdle

PhoneSpec == PhoneInit /\ [][PhoneNext]_vars

\* a call of one field extractor on a detail page
FieldInit ==
    /\ field \in Fields
    /\ variant = (IF field \in EnhancedFields THEN "enhanced" ELSE "optimized")
    /\ max_results = 0
    /\ pc = "idle"
    /\ HarvestIdle
    /\ phase = "idle"
    /\ SessionFresh
    /\ OtherIdle
    /\ seen = <<>>
    /\ field_value = NotCalled
    /\ ScrollIdle

FieldSpec == FieldInit /\ [][FieldNext]_vars

\* targets tried by the basic scraper
GTargets == {0, 1, 2}

\* a call of search (google_maps_scraper.py)
ScrollInit ==
    /\ variant = "basic"
    /\ max_results \in GTargets
    /\ pc = "idle"
    /\ HarvestIdle
    /\ phase = "idle"
    /\ SessionFresh
    /\ OtherIdle
    /\ FieldIdle
    /\ gpc = "search"
    /\ scroll_container = FALSE
    /\ last_height = 0
    /\ scroll_attempts = 0
    /\ no_new_results_count = 0
    /\ n_results = 0
    /\ initial_source_length = 0
    /\ final_source_length = 0
    /\ loops = 0
    /\ captured = NoCapture
    /\ escaped = "none"

ScrollSpec == ScrollInit /\ [][ScrollNext]_vars

\* the delays of the passes of one harvest
DelayInit ==
    /\ variant \in {"enhanced", "optimized"}
    /\ max_results = 0
    /\ pc = "idle"
    /\ HarvestIdle
    /\ phase = "idle"
    /\ SessionFresh
    /\ OtherIdle
    /\ FieldIdle
    /\ ScrollIdle

DelaySpec == DelayInit /\ [][DelayNext]_vars

(* Long runs of scroll_for_more_results.  The code is the same; the
   environment is narrowed to a driver that never raises and a page without a
   scroll container, so that targets large enough to let the loop pass its
   50th iteration can be enumerated. *)

LongScrollStart == ScrollStart(FALSE, TRUE, TRUE, MaxPageLen)
LongScrollIteration ==
    \E height \in Heights, new \in NewListings :
        ScrollIteration("ok", FALSE, height, TRUE, height, new)
LongScrollFinish == ScrollFinish(TRUE, TRUE, MaxPageLen)

\* a target that ends the loop early, and one that lets it pass 50 iterations
LongTargets == {1, 11}

\* a call of scroll_for_more_results from line 293 of search
LongScrollInit ==
    /\ variant = "basic"
    /\ max_results \in LongTargets
    /\ pc = "idle"
    /\ HarvestIdle
    /\ phase = "idle"
    /\ SessionFresh
    /\ OtherIdle
    /\ FieldIdle
    /\ gpc = "scroll_start"
    /\ scroll_container = FALSE
    /\ last_height = 0
    /\ scroll_attempts = 0
    /\ no_new_results_count = 0
    /\ n_results = 0
    /\ initial_source_length = 0
    /\ final_source_length = 0
    /\ loops = 0
    /\ captured = NoCapture
    /\ escaped = "none"

LongScrollNext ==
    \/ LongScrollStart
    \/ LongScrollIteration
    \/ LongScrollFinish

LongScrollSpec == LongScrollInit /\ [][LongScrollNext]_vars

----------------------------------------------------------------------------
(* Properties of the harvest loops *)

InEnhanced == variant = "enhanced"
InOptimized == variant = "optimized"

\* the iteration ceiling of the running loop
MaxScrolls == IF InEnhanced THEN EMaxScrolls ELSE OMaxScrolls
MaxPatience == IF InEnhanced THEN EMaxPatience ELSE OMaxPatience

\* the while loop has been left (by its condition, a break, a return or an exception)
LoopLeft ==
    \/ InEnhanced /\ pc \in {"e_ret", "done"}
    \/ InOptimized /\ pc = "o_ret"

\* A measure of the work left.  Within one iteration the positions are passed
\* downwards; a for-loop can only add an href NumHrefs times per selector; a
\* new iteration costs one of the MaxScrolls - scroll that remain; a new
\* search URL costs one of the NumSearchUrls - url_idx that remain.
PathsLeft ==
    IF path = "primary" THEN NumFallbackSelectors
    ELSE IF path \in {SelectorPaths[k] : k \in 1..NumFallbackSelectors}
         THEN NumFallbackSelectors - SelectorIndex(path)
         ELSE 0
ForLeft == PathsLeft * (NumHrefs + 1) + (NumHrefs - Cardinality(all_links))
ForMax == NumFallbackSelectors * (NumHrefs + 1) + NumHrefs
InIteration ==
    IF pc \in {"e_loop", "o_loop"} THEN ForMax + 4
    ELSE IF pc \in {"e_query", "o_query"} THEN ForMax + 3
    ELSE IF pc \in {"e_for", "o_for"} THEN ForLeft + 2
    ELSE IF pc \in {"e_check", "o_check"} THEN 1
    ELSE 0
IterationWeight == ForMax + 5
LoopRank ==
    IF pc \in {"e_ret", "o_ret", "s_loop", "s_get", "s_ret", "done"} THEN 0
    ELSE (MaxScrolls - scroll) * IterationWeight + InIteration + 2
UrlWeight == (OMaxScrolls + 1) * IterationWeight + 4
Rank ==
    IF pc = "done" THEN 0
    ELSE IF pc \in {"e_ret", "s_ret"} THEN 1
    ELSE IF InEnhanced THEN LoopRank
    ELSE (NumSearchUrls - url_idx) * UrlWeight
         + (IF pc = "s_loop" THEN UrlWeight - 1
            ELSE IF pc = "s_get" THEN UrlWeight - 2
            ELSE LoopRank)

\* the harvest code's own state (the history variables left out)
codevars == <<pc, all_links, scroll, nnc, new_count, path, seen_links, found, url_idx, result>>

\* C1: whatever the view yields, the body of the harvest loop is entered at
\* most max_scrolls times (min(50, max(20, max_results)) in get_business_links,
\* 50 in _extract_links_optimized), and the call ends: every step that changes
\* the code's state lowers a natural-number measure, so no run takes infinitely
\* many such steps.
C1_BoundedHarvest ==
    /\ [](iters <= MaxScrolls /\ scroll <= MaxScrolls /\ Rank >= 0)
    /\ [][Rank' < Rank]_codevars

\* the iteration ceiling is reached in a run that kept finding links
C1_Witness == pc = "done" /\ exit_by = "while" /\ scroll = MaxScrolls /\ iters = MaxScrolls

\* C2 (as claimed): when no iteration ever discovers a new reference and
\* max_results >= 1, the loop is left at the patience ceiling, at the 8th
\* (get_business_links) resp. 15th (_extract_links_optimized) consecutive
\* no-progress iteration, with the scroll counter below max_scrolls.
C2_PatienceExit ==
    (LoopLeft /\ all_links = {} /\ max_results >= 1)
        => /\ exit_by = "patience"
           /\ nnc = MaxPatience
           /\ iters = MaxPatience
           /\ scroll < MaxScrolls

\* C2, supporting: the only other way out of a run without progress is the
\* exception that escapes _enhanced_scroll
C2_PatienceOrAbort ==
    (LoopLeft /\ all_links = {} /\ max_results >= 1)
        => \/ exit_by = "patience" /\ nnc = MaxPatience /\ iters = MaxPatience
              /\ scroll < MaxScrolls
           \/ InEnhanced /\ exit_by = "abort" /\ result = <<>>

\* C3 (as claimed): a get_business_links run without progress that stops at the
\* patience ceiling has invoked the alternative scroll, the page refresh and
\* the zoom-out strategy, in that order.
C3_AllRecoveries ==
    (InEnhanced /\ LoopLeft /\ all_links = {} /\ exit_by = "patience")
        => streak = <<"alternative_scroll", "page_refresh", "zoom_out">>

Tier(a) == IF a = "alternative_scroll" THEN 1 ELSE IF a = "page_refresh" THEN 2 ELSE 3

\* C4: in get_business_links the recovery strategies invoked within one streak
\* of no-progress iterations have strictly increasing tiers (so none occurs
\* twice) and begin with the lowest one; an iteration that found a new
\* reference leaves the no-progress counter at 0 and ends the streak.
C4_Escalation ==
    InEnhanced =>
        /\ \A i, j \in 1..Len(streak) : i < j => Tier(streak[i]) < Tier(streak[j])
        /\ streak # <<>> => streak[1] = "alternative_scroll"
        /\ (pc = "e_scroll" /\ new_count > 0) => (nnc = 0 /\ streak = <<>>)
        /\ nnc = 0 => streak = <<>>

\* a second streak, after progress, has escalated through two tiers again
C4_Witness ==
    /\ InEnhanced
    /\ all_links # {}
    /\ streak = <<"alternative_scroll", "page_refresh">>

\* C5: the harvest loops never hold more than max_results references, and the
\* list get_business_links / search_and_extract_links returns has at most
\* max_results elements.
C5_AtMostTarget ==
    /\ Cardinality(all_links) <= max_results
    /\ Len(result) <= max_results

\* search_and_extract_links collected more than the target over two URLs and
\* returned exactly max_results of them
C5_Witness ==
    /\ InOptimized
    /\ pc = "done"
    /\ Cardinality(found) > max_results
    /\ Len(result) = max_results
    /\ max_results >= 2

\* C6 (as claimed): if every iteration discovers exactly one new reference
\* then, for every max_results >= 1, the loop is left only when the number of
\* collected references equals max_results.
C6_ExitsAtTarget ==
    (LoopLeft /\ one_each /\ new_count <= 1 /\ max_results >= 1)
        => Cardinality(all_links) = max_results

\* C6, supporting: under the same premise the loop is left through its condition, a break or a
\* return only when the number of collected references equals max_results or,
\* for max_results > 50, the scroll ceiling 50; the one other way out is the
\* exception escaping _enhanced_scroll, with which get_business_links returns [].
C6_ExitsAtTargetOrCeiling ==
    (LoopLeft /\ one_each /\ new_count <= 1 /\ max_results >= 1)
        => \/ exit_by # "abort" /\ Cardinality(all_links) = Min(max_results, 50)
           \/ InEnhanced /\ exit_by = "abort" /\ result = <<>>

\* a target of 50 is met in the last iteration the ceiling allows
C6_Witness ==
    /\ LoopLeft
    /\ one_each
    /\ max_results = 50
    /\ iters = 50
    /\ Cardinality(all_links) = 50

\* C7: a pass of the for-loop either leaves the store and the new-reference
\* count as they are (the href is absent, not a place URL, or already stored)
\* or stores one href that was not stored before and raises the count by one;
\* the count never moves without the store.
ForPass == pc \in {"e_for", "o_for"}
C7_AddIdempotent ==
    [][ForPass =>
          /\ all_links \subseteq all_links'
          /\ Cardinality(all_links') - Cardinality(all_links) = new_count' - new_count
          /\ new_count' - new_count \in {0, 1}
          /\ InOptimized =>
                /\ all_links' \subseteq seen_links'
                /\ Cardinality(seen_links') - Cardinality(seen_links) = new_count' - new_count
       ]_vars

\* an iteration that met a stored href again and counted exactly the one new one
C7_Witness ==
    /\ ForPass
    /\ redisc
    /\ new_count = 1
    /\ Cardinality(all_links) = 2

----------------------------------------------------------------------------
(* Properties of the detail sessions *)

SessionDone == phase = "done"

\* the detail pages processed so far that loaded and showed a valid name
UsefulPages == SelectSeq(pages, LAMBDA p : p.page.loaded /\ p.page.name)
\* the records those pages hold, one per link, in the order of the links
UsefulRecords == [i \in 1..Len(UsefulPages) |-> DataOf(UsefulPages[i].url, UsefulPages[i].page)]

\* C8 (as claimed): run_extraction returns exactly the records of the links
\* whose detail page yields a name other than 'Unknown Business', one per link.
C8_ReturnsUsefulRecords ==
    (InEnhanced /\ SessionDone) => ret = UsefulRecords

\* C9 (as claimed): every record run_extraction or run_scraping returns has a
\* name that is present and is not 'Unknown Business'.
C9_OnlyUsefulReturned ==
    SessionDone =>
        \A i \in 1..Len(ret) :
            ret[i].isdata /\ ret[i].name # "" /\ ret[i].name # UnknownBusiness

\* C10: in the detail loop of run_extraction every processed link raises
\* exactly one of successful and failed: throughout and after the loop
\* successful + failed is the number of links attempted and successful is the
\* number of records in results.
C10_CountersPartition ==
    InEnhanced =>
        /\ successful + failed = idx
        /\ idx = Len(pages)
        /\ successful = Len(results)
        /\ SessionDone /\ raised = "none" /\ links # <<>> => idx = Len(links)

\* the loop has processed two links, one of them a page with name and phone
C10_Witness ==
    /\ InEnhanced
    /\ SessionDone
    /\ idx = 2
    /\ \E i \in 1..Len(pages) :
          pages[i].page.loaded /\ pages[i].page.name /\ pages[i].page.phone

\* the records of a list that carry a phone
WithPhone(lst) == {i \in 1..Len(lst) : lst[i].mobile # NoPhone}

\* C11 (as claimed): when a session run has completed, the object's
\* contacts-found counter exists and equals the number of returned records
\* that carry a phone.
C11_ContactsCounted ==
    (SessionDone /\ (InEnhanced \/ InOptimized)) =>
        /\ HasAttr("contacts_found")
        /\ contacts_found = Cardinality(WithPhone(ret))

\* C11, supporting: run_scraping keeps the counter as claimed
C11_OptimizedContactsCounted ==
    (InOptimized /\ SessionDone) => contacts_found = Cardinality(WithPhone(ret))

\* the detail loop has been left
AfterDetailLoop == phase \in {"cleanup", "done"} /\ links # <<>>

\* C12: in run_extraction and run_scraping the detail loop attempts the
\* harvested links one after the other, each exactly once, whether or not an
\* earlier extraction failed; unless the run is interrupted from outside, the
\* loop is left only after every link has been attempted.
C12_EveryLinkAttempted ==
    /\ Len(pages) = idx
    /\ idx <= Len(links)
    /\ \A i \in 1..Len(pages) : pages[i].url = links[i]
    /\ \A i, j \in 1..Len(links) : links[i] = links[j] => i = j
    /\ (AfterDetailLoop /\ raised = "none") => Len(pages) = Len(links)

\* the first extraction failed (the page did not load), the links after it
\* were attempted, and one of them gave a record
C12_Witness ==
    /\ SessionDone
    /\ raised = "none"
    /\ Len(links) = 3
    /\ Len(pages) = 3
    /\ ~pages[1].page.loaded
    /\ pages[3].page.loaded
    /\ Len(ret) >= 1

\* the driver became unusable after the k-th detail extraction: the first k
\* detail pages loaded, driver.get raised for every later link
DriverDiedAfter(k) ==
    /\ k < Len(pages)
    /\ \A i \in 1..Len(pages) : pages[i].page.loaded <=> i <= k

\* the keys of a record
RecordFields == {"isdata", "url", "name", "mobile"}

\* C13: when the driver became unusable after k detail extractions, the run
\* (run_extraction, run_scraping) returns the records retained until then
\* (in run_scraping one for each of the k pages) and not an empty list in
\* their place, and every returned record is a complete record.
C13_KeepsCollected ==
    \A k \in 0..NumHrefs :
        (SessionDone /\ raised = "none" /\ DriverDiedAfter(k)) =>
            /\ ret = results
            /\ InOptimized => Len(ret) = k
            /\ \A i \in 1..Len(ret) :
                  /\ DOMAIN ret[i] = RecordFields
                  /\ ret[i].isdata
                  /\ ret[i] = DataOf(pages[i].url, pages[i].page)

\* run_scraping returned the two records made before the driver died
C13_Witness ==
    /\ InOptimized
    /\ SessionDone
    /\ raised = "none"
    /\ Len(pages) = 3
    /\ DriverDiedAfter(2)
    /\ Len(ret) = 2

\* what can leave a run towards the caller without any step of the run
\* having raised it: nothing, or the interrupt delivered from outside
NotRaisedByAStep == {"none", "KeyboardInterrupt"}

\* C14: run_extraction and run_scraping end by returning a list; no exception
\* raised by a search, harvest, per-item or summary step reaches the caller.
C14_AlwaysReturnsList ==
    ((InEnhanced \/ InOptimized) /\ SessionDone) =>
        /\ raised \in NotRaisedByAStep
        /\ DOMAIN ret = 1..Len(ret)

\* run_extraction went through the detail loop, its summary raised the
\* AttributeError on contacts_found, and the run still returned a list
C14_Witness ==
    /\ InEnhanced
    /\ SessionDone
    /\ raised = "none"
    /\ ~HasAttr("contacts_found")
    /\ idx = Len(links)
    /\ idx >= 1
    /\ ret = <<>>

\* C15 (as claimed): whenever a session (run_extraction, run_scraping,
\* scrape_google_maps) has handed control back to its caller, by a return or
\* by an exception that passes through, driver.quit() has been invoked.
C15_DriverClosedOnExit ==
    SessionDone => driver_quit

\* C15, supporting: the two class sessions close the driver in their finally
\* clause on every path, the interrupted one included
C15_ClassSessionsClose ==
    ((InEnhanced \/ InOptimized) /\ SessionDone) => driver_quit

\* C16 (as claimed): a cancellation delivered from outside makes the session
\* (run_extraction, run_scraping) halt and return the records collected so
\* far; the session never ends by raising.
C16_CancelReturnsPartial ==
    ((InEnhanced \/ InOptimized) /\ SessionDone) =>
        /\ raised = "none"
        /\ ret = results

\* under the stub view the k-th reference discovered is the place URL with
\* id 2k - 1, so a list is in order of first discovery iff its ids increase
InDiscoveryOrder(lst) == \A i, j \in 1..Len(lst) : i < j => lst[i].id < lst[j].id

\* C17 (as claimed): the list get_business_links hands to the detail loop
\* holds the references in the order in which the harvest loop discovered them.
C17_InsertionOrder ==
    (InEnhanced /\ pc = "done" /\ exit_by # "abort") => InDiscoveryOrder(result)

\* the container scroll of the last _enhanced_scroll call failed
ContainerScrollFailed == InEnhanced /\ Len(tried) > 1

\* C18 (as claimed): when the container scroll fails, _enhanced_scroll tries
\* the window-level scroll and then the PAGE_DOWN keys, in that order, and
\* returns normally, so that get_business_links is not aborted.
C18_ScrollFallsBack ==
    ContainerScrollFailed =>
        /\ tried[2] = "window"
        /\ tried[Len(tried)] = "keys"
        /\ exit_by # "abort"

\* C18, supporting: a failed container scroll always ends get_business_links
\* with [], and the PAGE_DOWN keys are never reached
C18_FailedScrollAborts ==
    ContainerScrollFailed =>
        /\ exit_by = "abort"
        /\ result = <<>>
        /\ \A i \in 1..Len(tried) : tried[i] # "keys"

----------------------------------------------------------------------------
(* Properties of _format_phone_number *)

Formatted == formatted # NotCalled

\* C19: _format_phone_number applied to one of its own results that is not
\* None gives that result again.
C19_FormatIdempotent ==
    (Formatted /\ formatted # Absent) => FormatPhoneNumber(formatted) = formatted

\* a ten-digit number without a known country code got the default "+1", and
\* formatting the result again recognises the leading 1 as a country code
C19_Witness ==
    /\ Formatted
    /\ Len(Digits(phone)) = NationalLen
    /\ ~IndianMobileLead(Digits(phone)[1])
    /\ ~StartsWithCountryCode(Digits(phone))
    /\ formatted = <<Plus, USCanadaCode>> \o Digits(phone)

\* C20: _format_phone_number returns a value for every string, None or a
\* string that starts with "+", and returns None whenever the string holds
\* fewer than ten digits (the empty string and strings without digits
\* included).
C20_TotalAndShortAbsent ==
    Formatted =>
        /\ formatted = Absent \/ formatted[1] = Plus
        /\ Len(Digits(phone)) < 10 => formatted = Absent

\* nine digits behind a plus sign and a country code: None
C20_Witness ==
    /\ Formatted
    /\ Len(phone) >= 2
    /\ phone[1] = Plus
    /\ phone[2] = 9
    /\ Len(Digits(phone)) = 9
    /\ formatted = Absent

\* the digits left of an argument after everything else is stripped
Stripped == SelectSeq(phone, LAMBDA c : c \in 0..9)
\* the argument holds something besides digits
Noisy == \E i \in 1..Len(phone) : phone[i] \notin 0..9

\* C21: an argument whose stripped digit string has exactly 10 digits and a
\* leading digit 6, 7, 8 or 9 gives '+91' followed by those 10 digits in their
\* order, whatever else the argument holds.
C21_TenDigitMobile ==
    (Formatted /\ Len(Stripped) = 10 /\ Stripped[1] \in {6, 7, 8, 9})
        => formatted = <<Plus, 9, 1>> \o Stripped

\* a noisy argument with ten digits led by 6
C21_Witness ==
    /\ Formatted
    /\ Noisy
    /\ Len(Stripped) = 10
    /\ Stripped[1] = 6
    /\ formatted = <<Plus, 9, 1>> \o Stripped

\* the value of the first k digits of a digit string
LeadValue(digits, k) ==
    IF k = 1 THEN digits[1]
    ELSE IF k = 2 THEN 10 * digits[1] + digits[2]
    ELSE 100 * digits[1] + 10 * digits[2] + digits[3]
\* a digit string of at least 3 digits begins with an entry of the calling-code table
HasTablePrefix(digits) ==
    \/ LeadValue(digits, 1) \in CountryCodes1
    \/ LeadValue(digits, 2) \in CountryCodes2
    \/ LeadValue(digits, 3) \in CountryCodes3

\* C22: an argument whose stripped digit string has at least 10 digits and
\* begins with a calling code of the table, and is not a 10-digit number led
\* by 6-9, gives '+' followed by exactly the stripped digits.
C22_KnownCodePassesThrough ==
    (/\ Formatted
     /\ Len(Stripped) >= 10
     /\ HasTablePrefix(Stripped)
     /\ ~(Len(Stripped) = 10 /\ Stripped[1] \in {6, 7, 8, 9}))
        => formatted = <<Plus>> \o Stripped

\* '+91' and a ten-digit national number led by 9: twelve digits pass through
C22_Witness ==
    /\ Formatted
    /\ Len(phone) >= 1
    /\ phone[1] = Plus
    /\ Len(Stripped) = 12
    /\ Stripped[1] = 9 /\ Stripped[2] = 1 /\ Stripped[3] = 9
    /\ formatted = <<Plus>> \o Stripped

\* C23: an argument whose stripped digit string has exactly 10 digits, a
\* leading digit other than 6-9 and no calling code of the table in front
\* gives '+1' followed by the 10 digits.
C23_FallbackCode ==
    (/\ Formatted
     /\ Len(Stripped) = 10
     /\ Stripped[1] \notin {6, 7, 8, 9}
     /\ ~HasTablePrefix(Stripped))
        => formatted = <<Plus, 1>> \o Stripped

\* a noisy argument with ten digits led by 0
C23_Witness ==
    /\ Formatted
    /\ Noisy
    /\ Len(Stripped) = 10
    /\ Stripped[1] = 0
    /\ Len(formatted) = 12
    /\ formatted[2] = 1

----------------------------------------------------------------------------
(* Field extractors *)

\* the extractor has returned
Returned == field_value # NotCalled

\* C24: a field extractor returns the value of the first selector, in
\* declaration order, whose lookup succeeds with a value that passes the
\* field's test: every selector consulted before it failed, and no selector
\* after it was consulted at all.
C24_FirstValidWins ==
    (Returned /\ field_value # NotFound(field)) =>
        LET k == Len(seen)
        IN /\ k >= 1
           /\ Valid(field, seen[k])
           /\ field_value = ValueOf(field, seen[k])
           /\ \A j \in 1..(k - 1) : ~Valid(field, seen[j])

\* _get_name returned the second selector's text, stripped, having rejected
\* the first; its third selector was never consulted
C24_Witness ==
    /\ field = "_get_name"
    /\ seen = << <<Space, Dash, Space>>, <<Space, 7, 7>> >>
    /\ field_value = <<7, 7>>

\* C25: when no selector of the chain yields a valid value (each lookup
\* raises or gives a text that fails the test), the extractor returns the
\* field's absent value after the last selector; a raising lookup never
\* ends the call.
C25_AbsentWhenNoneValid ==
    (Returned /\ \A j \in 1..Len(seen) : ~Valid(field, seen[j])) =>
        /\ field_value = NotFound(field)
        /\ Len(seen) = NumSelectors(field)

\* all seven lookups of _extract_address raised
C25_Witness ==
    /\ field = "_extract_address"
    /\ seen = [j \in 1..7 |-> Raises]
    /\ field_value = AddressNotFound

\* a rating <<n, k>> lies on the scale 0..5
InScale(rating) == rating[1] <= 5 * (10 ^ rating[2])

\* C27: every rating a rating extractor returns lies within 0..5.
C27_RatingInScale ==
    (field \in RatingFields /\ Returned /\ field_value # Absent) => InScale(field_value)

----------------------------------------------------------------------------
(* Phone extractors *)

\* C26: every phone value a phone extractor returns, other than None, holds
\* at least 10 digits: the enhanced extractors return the matched text as it
\* is, the optimized one returns what _format_phone_number made of it.
C26_ExtractedHasTenDigits ==
    (extracted # NotCalled /\ extracted # Absent) => Len(Digits(extracted)) >= 10

\* the enhanced extractor returned a match of exactly 10 digits that also
\* holds other characters
C26_Witness ==
    /\ variant = "enhanced"
    /\ extracted # NotCalled
    /\ extracted # Absent
    /\ Len(Digits(extracted)) = 10
    /\ Len(extracted) > 10

----------------------------------------------------------------------------
(* GoogleMapsBusinessScraper: evidence capture and the scroll loop *)

\* the steps of search and scroll_for_more_results that follow a
\* capture_evidence call made in the try block of search
AfterCapture == {"scroll_start", "loop", "returned"}

\* C28: capture_evidence returns normally whenever the screenshot or the
\* page dump raises, with 0 when the page source could not be saved: the
\* step that called it goes on to the next statement of search or of
\* scroll_for_more_results, and search's handler ends normally.
C28_EvidenceNeverAborts ==
    (captured.called /\ ~(captured.shot_ok /\ captured.dump_ok)) =>
        /\ gpc \in AfterCapture \cup {"search_done"}
        /\ (gpc = "loop" /\ ~captured.dump_ok) => initial_source_length = 0
        /\ (gpc = "returned" /\ ~captured.dump_ok) => final_source_length = 0

\* the screenshot and the page dump both raised before the loop, and the
\* loop was entered with initial_source_length = 0
C28_Witness ==
    /\ captured = Capture(FALSE, FALSE)
    /\ gpc = "loop"
    /\ initial_source_length = 0
    /\ max_results > 0

\* C29: one call of scroll_for_more_results executes its loop body at most
\* max_scroll_attempts = 50 times, whatever the view returns.
C29_AtMostFiftyPasses == loops <= 50

\* C29, supporting: the loop body is executed at most 5 * max_results times
\* (max_no_new_results passes for every listing still missing), and
\* scroll_attempts, which counts the consecutive passes whose scroll height
\* did not change, never exceeds 50.
C29_BoundedByPatience ==
    /\ loops <= 5 * max_results
    /\ scroll_attempts <= 50

\* C29, supporting (reachable states): the loop body ran 55 times for a
\* target of 11; the loop was left because scroll_attempts reached 50
C29_FiftyFivePasses == max_results = 11 /\ loops = 55 /\ gpc = "returned"
C29_CeilingReached == scroll_attempts = 50 /\ gpc = "returned"

\* C30: a timeout or stale element raised by a scroll or by a scroll-height
\* query inside scroll_for_more_results never leaves the function.
C30_FailureStaysInside == escaped = "none"

\* C30, supporting: a stale scroll container is handled inside the function
\* and the pass is completed.
C30_StaleHandled ==
    [][\A refound, alt_ok \in BOOLEAN, height \in Heights, new \in NewListings :
           ScrollIteration("StaleElementReferenceException", refound, height, alt_ok,
                           height, new)
           => gpc' = "loop" /\ escaped' = "none"]_vars

----------------------------------------------------------------------------
(* The delay after a harvest pass *)

\* of two consecutive passes, the one that found new references never slept
\* longer than the one that found none
ShorterAfterProgress ==
    /\ (slept > 0 /\ slept' = 0) => delay <= delay'
    /\ (slept = 0 /\ slept' > 0) => delay' <= delay

----------------------------------------------------------------------------
(* The reference store of get_business_links *)

\* the elements of a list
Elements(lst) == {lst[i] : i \in 1..Len(lst)}

\* C32: get_business_links never loses the references of earlier passes:
\* whatever fails in a later pass, it returns references it collected, as
\* many as it collected up to max_results, and never an empty list instead.
C32_CollectedNeverLost ==
    (InEnhanced /\ pc = "done") =>
        /\ Elements(result) \subseteq all_links
        /\ Len(result) = Min(Cardinality(all_links), max_results)

\* C33: the store of get_business_links never holds two references to the
\* same item: every stored reference is the URL without its query string,
\* whichever of the two query paths discovered it.
C33_OneCanonicalReference ==
    InEnhanced =>
        /\ \A h \in all_links : ~HasQuery(h)
        /\ \A h1, h2 \in all_links : StripQuery(h1) = StripQuery(h2) => h1 = h2

\* the store holds one item twice, once with and once without its query
TwiceStored ==
    InEnhanced /\ \E h1, h2 \in all_links : h1 # h2 /\ StripQuery(h1) = StripQuery(h2)

\* a harvest that no scroll aborted returns what it collected: a failed link
\* query alone loses nothing
C32_KeptUnlessScrollAborts ==
    (InEnhanced /\ pc = "done" /\ exit_by # "abort") =>
        /\ Elements(result) \subseteq all_links
        /\ Len(result) = Min(Cardinality(all_links), max_results)

----------------------------------------------------------------------------
(* The result list of the basic scraper *)

\* the result bounds tried
LTargets == 0..2

\* a scraper of the basic kind after __init__ (line 29: self.results = []),
\* before its first process_listings call
ListingInit ==
    /\ variant = "basic"
    /\ max_results \in LTargets
    /\ pc = "idle"
    /\ phase = "idle"
    /\ HarvestIdle /\ SessionFresh /\ FieldIdle /\ ScrollIdle /\ DelayIdle /\ QueryIdle
    /\ lpc = "ready"
    /\ records = <<>>
    /\ remaining = 0
    /\ seen_ids = {}
    /\ cur_name = None
    /\ cur_address = None
    /\ selector_no = 0
    /\ data = None

ListingSpec == ListingInit /\ [][ListingNext]_vars

\* C34: starting from an empty result list, the result list never holds more
\* than max_results records, and a step only ever appends to it: the records
\* it held stay, in their order.
AppendOnly ==
    /\ Len(records') >= Len(records)
    /\ SubSeq(records', 1, Len(records)) = records

C34_BoundedAppendOnly ==
    /\ [](Len(records) <= max_results)
    /\ [][AppendOnly]_vars

\* a full result list after a second record was appended behind the first
C34_Witness ==
    /\ max_results = 2
    /\ Len(records) = 2
    /\ lpc = "listing"
    /\ remaining > 0

\* C35: the result list never holds two records with the same name and the
\* same address, however often the page shows the same listing again.
C35_NoDuplicateRecords ==
    \A i, j \in 1..Len(records) :
        (records[i][1] = records[j][1] /\ records[i][2] = records[j][2]) => i = j

\* a listing that is in the result list already was extracted again and dropped
C35_Witness ==
    /\ lpc = "listing"
    /\ Len(records) = 1
    /\ max_results = 2
    /\ seen_ids = {1, 2}
    /\ remaining = 0

\* C37: every record of the result list has a name that passed the validity
\* test of the name loop: it is non-empty and longer than one character.
C37_NamesPassedTheTest ==
    \A i \in 1..Len(records) : NameAccepts(records[i][1])

\* every record has a non-empty name
C37_NamesNonEmpty ==
    \A i \in 1..Len(records) : Truthy(records[i][1])

\* C38: an address other than 'N/A' is in a record only if its text is longer
\* than 5 characters and holds a digit or a street word; when no selector
\* offers such a text the record has 'N/A'.
C38_AddressPassedTheTest ==
    /\ \A i \in 1..Len(records) :
           records[i][2] = NA \/ (/\ Len(records[i][2]) > AddressMinLen
                                  /\ \/ HasDigit(records[i][2])
                                     \/ \E w \in StreetWords :
                                            Contains(LowerText(records[i][2]), w))
    /\ (lpc = "append" /\ data # None) =>
           data[2] = (IF cur_address = None THEN NA ELSE cur_address)
    /\ (lpc = "address" /\ selector_no <= NumAddressSelectors) => cur_address = None

\* a record with a street address next to one without
C38_Witness ==
    /\ Len(records) = 2
    /\ records[1][2] = <<"M", "a", "i", "n", " ", "R", "d">>
    /\ records[2][2] = NA

----------------------------------------------------------------------------
(* Termination of scroll_for_more_results *)

\* the interpreter goes on with a call that is running: every driver call
\* returns, so a step that can be taken is taken
LongScrollFairSpec == LongScrollSpec /\ WF_vars(LongScrollNext)

\* the passes the while loop can still make: max_no_new_results passes for
\* every listing that is missing, less the passes without a result already made
PassesLeft == GMaxNoNewResults * (max_results - n_results) - no_new_results_count

\* C36: scroll_for_more_results terminates when every driver call returns.
\* The loop is left only with the result bound reached, 5 consecutive passes
\* without a new result, or 50 consecutive passes without a change of the
\* scroll height; and every pass uses up one of the passes that the result
\* bound and the no-new-results counter leave.
C36_ScrollTerminates ==
    /\ <>(gpc = "returned")
    /\ [](gpc = "returned" =>
              \/ n_results >= max_results
              \/ no_new_results_count >= GMaxNoNewResults
              \/ scroll_attempts >= GMaxScrollAttempts)
    /\ [][(gpc = "loop" /\ gpc' = "loop") => PassesLeft' < PassesLeft]_vars

\* the loop was left for want of new results alone: the height kept changing
\* and listings are still missing
C36_Witness ==
    /\ gpc = "returned"
    /\ no_new_results_count = GMaxNoNewResults
    /\ scroll_attempts = 0
    /\ n_results > 0
    /\ n_results < max_results

----------------------------------------------------------------------------
(* The alternative queries of search *)

\* the result bounds and the values of min_results tried
QTargets == 0..MaxQTarget
MinTargets == 0..MaxQTarget

\* search after scroll_for_more_results (line 293) has returned with some of
\* the max_results listings collected
QueryInit ==
    /\ variant = "basic"
    /\ max_results \in QTargets
    /\ min_results \in MinTargets
    /\ pc = "idle"
    /\ phase = "idle"
    /\ HarvestIdle /\ SessionFresh /\ FieldIdle /\ DelayIdle /\ ListingIdle
    /\ gpc = "returned"
    /\ n_results \in 0..max_results
    /\ scroll_container = FALSE
    /\ last_height = 0
    /\ scroll_attempts = 0
    /\ no_new_results_count = 0
    /\ initial_source_length = 0
    /\ final_source_length = 0
    /\ loops = 0
    /\ captured = NoCapture
    /\ escaped = "none"
    /\ variation = 0
    /\ issued = <<>>

QuerySpec == QueryInit /\ [][QueryNext]_vars

\* the variations at the positions of S, in the order of search_variations
RECURSIVE VariationsAt(_)
VariationsAt(S) ==
    IF S = {} THEN <<>>
    ELSE LET last == CHOOSE x \in S : \A y \in S : y <= x
         IN Append(VariationsAt(S \ {last}), SearchVariations[last])

\* C39: the alternative queries run only if the first scroll phase left fewer
\* than min_results records; at most 4 variations are issued, in the order of
\* search_variations; and no variation is issued once the number of records
\* has reached min_results.
C39_AlternativesOnlyBelowMin ==
    /\ [](Len(issued) <= 4)
    /\ [](\E S \in SUBSET (1..Len(SearchVariations)) : issued = VariationsAt(S))
    /\ [][(gpc = "returned" /\ gpc' = "alternatives") => n_results < min_results]_vars
    /\ [][issued' # issued => n_results < min_results]_vars

\* all four variations were issued and the last one brought the missing record
C39_Witness ==
    /\ gpc = "extract"
    /\ Len(issued) = 4
    /\ min_results = 2
    /\ n_results = 2

----------------------------------------------------------------------------
(* The URL strategies of the optimized scraper *)

\* the result bounds tried
OTargets == 0..MaxTarget

\* a call of search_and_extract_links on a fresh OptimizedGoogleMapsScraper
OptimizedInit ==
    /\ variant = "optimized"
    /\ max_results \in OTargets
    /\ pc = "s_loop"
    /\ HarvestIdle
    /\ phase = "idle"
    /\ SessionFresh
    /\ OtherIdle
    /\ FieldIdle
    /\ ScrollIdle

OptimizedSpec == OptimizedInit /\ [][ONext]_vars

\* C40: search_and_extract_links tries its URLs in their order and navigates
\* to the next one only while fewer than max_results references are
\* collected; what a call of _extract_links_optimized returns holds no
\* reference that an earlier call returned; and seen_links holds every
\* reference a call has returned.
C40_StrategiesInOrderNoRepeats ==
    /\ [](found \subseteq seen_links)
    /\ [](pc = "o_ret" => (all_links \cap found = {} /\ all_links \subseteq seen_links))
    /\ [][url_idx' \in {url_idx, url_idx + 1}]_vars
    /\ [][(pc = "s_loop" /\ pc' = "s_get") =>
              (Cardinality(found) < max_results /\ url_idx < NumSearchUrls)]_vars

\* the call for the second URL returns a reference the first call had not seen
C40_Witness ==
    /\ pc = "o_ret"
    /\ url_idx = 1
    /\ found # {}
    /\ all_links # {}

====
